---- MODULE Spec2Model ----
(***************************************************************************)
(* A model of the birthday reminder bot: the users and birthdays tables,   *)
(* the BirthdayService mutations and queries, the InputValidator, the      *)
(* TimezoneHelper and the BirthdayReminder checks.                         *)
(*                                                                         *)
(* Python values are modelled as follows.                                  *)
(*   str       a tuple of one-character strings, so that strip(), lower(), *)
(*             title() and the YYYY-MM-DD parse are computed, not assumed; *)
(*             image URLs, notes, timezone ids and messages are opaque     *)
(*             tokens (TLA+ strings), since the code only tests them for   *)
(*             truthiness, membership or passes them on.                   *)
(*   Optional  a tuple of length <= 1: None is << >>, a value x is <<x>>.  *)
(*   date      [y, m, d]; datetime.now() is the variable now, a UTC        *)
(*             instant [date, hour].                                       *)
(* The columns created_at / updated_at, username and first_name are        *)
(* written but never read by the modelled operations and are left out.     *)
(***************************************************************************)
EXTENDS Integers, Sequences, FiniteSets, TLC

\* ------------------------------------------------------------------ bounds
\* Most rows the birthdays table holds in the model.
MaxRecords == 3
\* Most Tick steps of the clock in one behaviour.
MaxTicks == 1

\* ------------------------------------------------------------- Python str
None == << >>
Some(x) == <<x>>

UpperAlpha == <<"A","B","C","D","E","F","G","H","I","J","K","L","M",
                "N","O","P","Q","R","S","T","U","V","W","X","Y","Z">>
LowerAlpha == <<"a","b","c","d","e","f","g","h","i","j","k","l","m",
                "n","o","p","q","r","s","t","u","v","w","x","y","z">>
Digits == <<"0","1","2","3","4","5","6","7","8","9">>
Whitespace == {" ", "\t", "\n"}

UpperSet == {UpperAlpha[i] : i \in 1..26}
LowerSet == {LowerAlpha[i] : i \in 1..26}
DigitSet == {Digits[i] : i \in 1..10}
LowerTable == [c \in UpperSet |-> LowerAlpha[CHOOSE i \in 1..26 : UpperAlpha[i] = c]]
UpperTable == [c \in LowerSet |-> UpperAlpha[CHOOSE i \in 1..26 : LowerAlpha[i] = c]]
DigitTable == [c \in DigitSet |-> (CHOOSE i \in 1..10 : Digits[i] = c) - 1]
IsUpper(c) == c \in UpperSet
IsLower(c) == c \in LowerSet
IsLetter(c) == IsUpper(c) \/ IsLower(c)
IsDigit(c) == c \in DigitSet
DigitVal(c) == DigitTable[c]

\* str.lower(), str.upper() on one character and on a string
lower_char(c) == IF IsUpper(c) THEN LowerTable[c] ELSE c
upper_char(c) == IF IsLower(c) THEN UpperTable[c] ELSE c
lower(s) == [i \in 1..Len(s) |-> lower_char(s[i])]

\* str.title(): a letter after a non-letter (or first) is upper-cased, every
\* other letter lower-cased
title(s) ==
  [i \in 1..Len(s) |->
     IF i = 1 \/ ~IsLetter(s[i-1]) THEN upper_char(s[i]) ELSE lower_char(s[i])]

\* str.strip(): leading and trailing whitespace removed
RECURSIVE lstrip(_)
lstrip(s) == IF s # << >> /\ Head(s) \in Whitespace THEN lstrip(Tail(s)) ELSE s
RECURSIVE rstrip(_)
rstrip(s) ==
  IF s # << >> /\ s[Len(s)] \in Whitespace THEN rstrip(SubSeq(s, 1, Len(s) - 1)) ELSE s
strip(s) == rstrip(lstrip(s))

\* The ORM's name__iexact lookup: equality ignoring letter case
iexactMutant(a, b) == a = b
iexact(a, b) == lower(a) = lower(b)

\* ------------------------------------------------------------------ dates
IsLeap(y) == (y % 4 = 0 /\ y % 100 # 0) \/ y % 400 = 0
DaysInMonth(y, m) ==
  IF m = 2 THEN (IF IsLeap(y) THEN 29 ELSE 28)
  ELSE IF m \in {4, 6, 9, 11} THEN 30 ELSE 31
Date(y, m, d) == [y |-> y, m |-> m, d |-> d]
NextDay(dt) ==
  IF dt.d < DaysInMonth(dt.y, dt.m) THEN Date(dt.y, dt.m, dt.d + 1)
  ELSE IF dt.m < 12 THEN Date(dt.y, dt.m + 1, 1)
  ELSE Date(dt.y + 1, 1, 1)
PrevDay(dt) ==
  IF dt.d > 1 THEN Date(dt.y, dt.m, dt.d - 1)
  ELSE IF dt.m > 1 THEN Date(dt.y, dt.m - 1, DaysInMonth(dt.y, dt.m - 1))
  ELSE Date(dt.y - 1, 12, 31)
\* date < date, as Python compares dates
DateLess(a, b) ==
  \/ a.y < b.y
  \/ a.y = b.y /\ a.m < b.m
  \/ a.y = b.y /\ a.m = b.m /\ a.d < b.d
\* The days of a year before the first of month m
RECURSIVE DaysBeforeMonth(_, _)
DaysBeforeMonth(y, m) ==
  IF m = 1 THEN 0 ELSE DaysBeforeMonth(y, m - 1) + DaysInMonth(y, m - 1)
\* date.toordinal(): the day number in the proleptic Gregorian calendar
toordinal(dt) ==
  LET p == dt.y - 1
  IN  365 * p + (p \div 4) - (p \div 100) + (p \div 400)
        + DaysBeforeMonth(dt.y, dt.m) + dt.d
\* date.replace(year=y, month=m, day=d): None stands for the ValueError
\* raised when the month has no such day
date_replace(y, m, d) ==
  IF d <= DaysInMonth(y, m) THEN Some(Date(y, m, d)) ELSE None
\* date.weekday(): 0 is Monday, 6 is Sunday (Zeller's congruence)
weekday(dt) ==
  LET m == IF dt.m < 3 THEN dt.m + 12 ELSE dt.m
      y == IF dt.m < 3 THEN dt.y - 1 ELSE dt.y
      h == (dt.d + ((13 * (m + 1)) \div 5) + (y % 100) + ((y % 100) \div 4)
            + ((y \div 100) \div 4) + 5 * (y \div 100)) % 7
  IN  (h + 5) % 7

\* ------------------------------------------------------------- bot_config
Str_love == <<"l","o","v","e">>
Str_family == <<"f","a","m","i","l","y">>
Str_relative == <<"r","e","l","a","t","i","v","e">>
Str_work == <<"w","o","r","k">>
Str_friend == <<"f","r","i","e","n","d">>
Str_other == <<"o","t","h","e","r">>
BIRTHDAY_CATEGORIES == {Str_love, Str_family, Str_relative, Str_work, Str_friend, Str_other}
\* SUPERADMIN_ID is the str '6093689347' in bot_config.py
SUPERADMIN_ID == "6093689347"

\* -------------------------------------------------------------- validators
NameMaxLen == 100
YearMin == 1900
YearSlack == 50

NameChars == {"-", "'", "."}
\* InputValidator.validate_name
validate_name(name) ==
  LET s == strip(name) IN
    /\ name # << >>
    /\ Len(s) # 0
    /\ Len(s) <= NameMaxLen
    /\ \A i \in 1..Len(s) : IsLetter(s[i]) \/ s[i] \in Whitespace \/ s[i] \in NameChars

\* re.match(r'^\d{4}-\d{2}-\d{2}$', date_str)
DateFormatOk(s) ==
  /\ Len(s) = 10
  /\ s[5] = "-" /\ s[8] = "-"
  /\ \A i \in {1, 2, 3, 4, 6, 7, 9, 10} : IsDigit(s[i])
Num2(s, i) == 10 * DigitVal(s[i]) + DigitVal(s[i+1])
\* InputValidator.parse_date: Some(date), or None; current_year is
\* datetime.now().year
parse_date(date_str, current_year) ==
  IF ~DateFormatOk(date_str) THEN None
  ELSE LET y == 100 * Num2(date_str, 1) + Num2(date_str, 3)
           m == Num2(date_str, 6)
           d == Num2(date_str, 9)
       IN  IF ~(y >= 1 /\ m \in 1..12 /\ d >= 1 /\ d <= DaysInMonth(y, m)) THEN None
           ELSE IF y < YearMin \/ y > current_year + YearSlack THEN None
           ELSE Some(Date(y, m, d))

\* InputValidator.validate_category
validate_categoryMutant(category) == TRUE
validate_category(category) == lower(category) \in BIRTHDAY_CATEGORIES

\* InputValidator.validate_image_url. URLs are tokens; what validators.url,
\* the extension test and the host test say of each token is tabulated.
Url_png == "https://example.org/amy.png"
Url_imgur == "https://i.imgur.com/abcd"
Url_page == "https://example.org/profile"
Url_bad == "not a url"
WellFormedUrls == {Url_png, Url_imgur, Url_page}
ImageExtensionUrls == {Url_png}
ImageHostUrls == {Url_imgur}
validate_image_url(url) ==
  IF url = "" THEN TRUE
  ELSE IF url \notin WellFormedUrls THEN FALSE
  ELSE IF url \in ImageExtensionUrls THEN TRUE
  ELSE IF url \in ImageHostUrls THEN TRUE
  ELSE FALSE

\* ------------------------------------------------------------------ state
VARIABLES
  users,     \* the users table: user_id -> row
  records,   \* the birthdays table, in id order: records[i] has id i
  now,       \* datetime.now(), a UTC instant
  ticks,     \* Tick steps taken so far
  last,      \* the service call made last and the result it returned
  calls,     \* the service calls in flight: handler -> its call's frame
  job        \* the scheduler job that ran last, until its log is dropped

vars == <<users, records, now, ticks, last, calls, job>>

\* models/birthday.py User: the defaults of a row made by get_or_create
NewUser(user_id) == [user_id |-> user_id, timezone |-> "UTC", is_deleted |-> FALSE]
\* User.get_or_create(user_id=...): the table afterwards
get_or_create(us, user_id) ==
  IF user_id \in DOMAIN us THEN us ELSE us @@ (user_id :> NewUser(user_id))
\* User.get_or_none(user_id=...) finds a row (deleted or not)
UserExists(us, user_id) == user_id \in DOMAIN us

\* Birthday.filter(user=user, name__iexact=name.strip()[, is_deleted=flag])
\* as the set of matching ids; flag is None (no filter) or Some(bool)
MatchIds(rs, user_id, name, flag) ==
  {i \in 1..Len(rs) :
     /\ rs[i].user = user_id
     /\ iexact(rs[i].name, strip(name))
     /\ (flag # None => rs[i].is_deleted = flag[1])}
\* .first(): the matching row of least id, as an Optional
firstMutant(rs, user_id, name, flag) ==
  LET ids == MatchIds(rs, user_id, name, None) IN
    IF ids = {} THEN None
    ELSE Some(rs[CHOOSE i \in ids : \A j \in ids : i <= j])
first(rs, user_id, name, flag) ==
  LET ids == MatchIds(rs, user_id, name, flag) IN
    IF ids = {} THEN None
    ELSE Some(rs[CHOOSE i \in ids : \A j \in ids : i <= j])

\* instance.save(): every column of the row with that id is overwritten
saveMutant(rs, obj) ==
  [i \in 1..Len(rs) |-> IF rs[i].user = obj.user THEN [obj EXCEPT !.id = i] ELSE rs[i]]
save(rs, obj) == [rs EXCEPT ![obj.id] = obj]
\* Birthday.create(...): a new row with the next id and the column defaults
create(rs, user_id, name, birthdate, category, image_url, notes) ==
  Append(rs, [id |-> Len(rs) + 1, user |-> user_id, name |-> name,
              birthdate |-> birthdate, category |-> category,
              image_url |-> image_url, notes |-> notes,
              is_deleted |-> FALSE, deleted_at |-> None])

Ret(ok, msg) == [success |-> ok, message |-> msg]
Outcome(us, rs, ret) == [users |-> us, records |-> rs, ret |-> ret]
\* Python truthiness of an Optional[str] token
Truthy(opt) == opt # None /\ opt[1] # ""

\* BirthdayService.add_birthday, lines 42-57: an existing soft-deleted row is
\* restored with the data of this call
add_resurrectMutant(existing, birthdate, category, image_url, notes) ==
  [existing EXCEPT !.is_deleted = FALSE, !.deleted_at = None]
add_resurrect(existing, birthdate, category, image_url, notes) ==
  [existing EXCEPT !.birthdate = birthdate, !.category = lower(category),
                   !.image_url = image_url, !.notes = notes,
                   !.is_deleted = FALSE, !.deleted_at = None]

\* BirthdayService.add_birthday, lines 38-74: what is written given the row
\* the lookup returned
add_writeMutant(us, rs, existing, user_id, name, birthdate, category, image_url, notes) ==
  IF existing # None
    THEN Outcome(us,
                 save(rs, add_resurrect(existing[1], birthdate, category, image_url, notes)),
                 Ret(TRUE, "Birthday restored"))
  ELSE Outcome(us,
               create(rs, user_id, title(strip(name)), birthdate, lower(category),
                      image_url, notes),
               Ret(TRUE, "Birthday added"))
add_write(us, rs, existing, user_id, name, birthdate, category, image_url, notes) ==
  IF existing # None /\ ~existing[1].is_deleted
    THEN Outcome(us, rs, Ret(FALSE, "already exists"))
  ELSE IF existing # None /\ existing[1].is_deleted
    THEN Outcome(us,
                 save(rs, add_resurrect(existing[1], birthdate, category, image_url, notes)),
                 Ret(TRUE, "Birthday restored"))
  ELSE Outcome(us,
               create(rs, user_id, title(strip(name)), birthdate, lower(category),
                      image_url, notes),
               Ret(TRUE, "Birthday added"))

\* BirthdayService.add_birthday, lines 20-33: the message of the first
\* validation that fails, or None
add_validate(t, name, birthdate_str, category, image_url) ==
  IF ~validate_name(name) THEN Some("Invalid name format")
  ELSE IF parse_date(birthdate_str, t.date.y) = None
    THEN Some("Invalid date format. Use YYYY-MM-DD")
  ELSE IF ~validate_category(category) THEN Some("Invalid category")
  ELSE IF Truthy(image_url) /\ ~validate_image_url(image_url[1])
    THEN Some("Invalid image URL format")
  ELSE None

\* BirthdayService.add_birthday run without interleaving
add_birthdayMutant(us, rs, t, user_id, name, birthdate_str, category, image_url, notes) ==
  LET bad == add_validate(t, name, birthdate_str, category, image_url)
      us1 == get_or_create(us, user_id)
  IN  IF bad # None THEN Outcome(us1, rs, Ret(FALSE, bad[1]))
      ELSE add_write(us1, rs, first(rs, user_id, name, None), user_id, name,
                     parse_date(birthdate_str, t.date.y)[1], category, image_url, notes)
add_birthday(us, rs, t, user_id, name, birthdate_str, category, image_url, notes) ==
  LET bad == add_validate(t, name, birthdate_str, category, image_url) IN
    IF bad # None THEN Outcome(us, rs, Ret(FALSE, bad[1]))
    ELSE LET us1 == get_or_create(us, user_id)
             existing == first(rs, user_id, name, None)
         IN  add_write(us1, rs, existing, user_id, name,
                       parse_date(birthdate_str, t.date.y)[1], category, image_url, notes)

\* BirthdayService.delete_birthday, lines 95-98
soft_deleteMutant(birthday, t) == [birthday EXCEPT !.is_deleted = TRUE]
soft_delete(birthday, t) == [birthday EXCEPT !.is_deleted = TRUE, !.deleted_at = Some(t)]
\* BirthdayService.delete_birthday run without interleaving
delete_birthday(us, rs, t, user_id, name) ==
  IF ~UserExists(us, user_id) THEN Outcome(us, rs, Ret(FALSE, "User not found"))
  ELSE LET birthday == first(rs, user_id, name, Some(FALSE)) IN
    IF birthday = None THEN Outcome(us, rs, Ret(FALSE, "not found"))
    ELSE Outcome(us, save(rs, soft_delete(birthday[1], t)), Ret(TRUE, "deleted"))

\* BirthdayService.restore_deleted_birthday, lines 320-323
undeleteMutant(birthday) == [birthday EXCEPT !.is_deleted = FALSE]
undelete(birthday) == [birthday EXCEPT !.is_deleted = FALSE, !.deleted_at = None]
\* BirthdayService.restore_deleted_birthday run without interleaving
restore_deleted_birthdayMutant(us, rs, user_id, name) ==
  IF ~UserExists(us, user_id) THEN Outcome(us, rs, Ret(FALSE, "User not found"))
  ELSE LET birthday == first(rs, user_id, name, Some(FALSE)) IN
    IF birthday = None THEN Outcome(us, rs, Ret(FALSE, "No deleted birthday found"))
    ELSE Outcome(us, save(rs, undelete(birthday[1])), Ret(TRUE, "restored successfully"))
restore_deleted_birthday(us, rs, user_id, name) ==
  IF ~UserExists(us, user_id) THEN Outcome(us, rs, Ret(FALSE, "User not found"))
  ELSE LET birthday == first(rs, user_id, name, Some(TRUE)) IN
    IF birthday = None THEN Outcome(us, rs, Ret(FALSE, "No deleted birthday found"))
    ELSE Outcome(us, save(rs, undelete(birthday[1])), Ret(TRUE, "restored successfully"))

\* BirthdayService.update_birthday, lines 128-154: the fields are checked and
\* set on the in-memory object one after the other; save() is reached only
\* when none fails
update_birthday(us, rs, t, user_id, name, new_date_str, new_category, new_image_url, new_notes) ==
  IF ~UserExists(us, user_id) THEN Outcome(us, rs, Ret(FALSE, "User not found"))
  ELSE LET found == first(rs, user_id, name, Some(FALSE)) IN
    IF found = None THEN Outcome(us, rs, Ret(FALSE, "not found"))
    ELSE
      LET b0 == found[1]
          hasDate == new_date_str # None /\ new_date_str[1] # << >>
          new_date == IF hasDate THEN parse_date(new_date_str[1], t.date.y) ELSE None
          b1 == IF hasDate /\ new_date # None THEN [b0 EXCEPT !.birthdate = new_date[1]] ELSE b0
          hasCat == new_category # None /\ new_category[1] # << >>
          b2 == IF hasCat THEN [b1 EXCEPT !.category = lower(new_category[1])] ELSE b1
          hasImg == new_image_url # None
          b3 == IF hasImg
                  THEN [b2 EXCEPT !.image_url = IF new_image_url[1] # "" THEN new_image_url ELSE None]
                  ELSE b2
          b4 == IF new_notes # None
                  THEN [b3 EXCEPT !.notes = IF new_notes[1] # "" THEN new_notes ELSE None]
                  ELSE b3
      IN  IF hasDate /\ new_date = None
            THEN Outcome(us, rs, Ret(FALSE, "Invalid date format. Use YYYY-MM-DD"))
          ELSE IF hasCat /\ ~validate_category(new_category[1])
            THEN Outcome(us, rs, Ret(FALSE, "Invalid category"))
          ELSE IF hasImg /\ new_image_url[1] # "" /\ ~validate_image_url(new_image_url[1])
            THEN Outcome(us, rs, Ret(FALSE, "Invalid image URL format"))
          ELSE Outcome(us, save(rs, b4), Ret(TRUE, "updated"))

\* ---------------------------------------------------------------- queries
\* order_by(key): rows in ascending key order, rows of equal key in id order
RECURSIVE InsertPair(_, _)
InsertPair(sorted, p) ==
  IF sorted = << >> THEN <<p>>
  ELSE IF p[1] < Head(sorted)[1] THEN <<p>> \o sorted
  ELSE <<Head(sorted)>> \o InsertPair(Tail(sorted), p)
RECURSIVE SortPairs(_)
SortPairs(pairs) ==
  IF pairs = << >> THEN << >>
  ELSE InsertPair(SortPairs(SubSeq(pairs, 1, Len(pairs) - 1)), pairs[Len(pairs)])
\* The sort key of a row for order_by('birthdate'), order_by('birthdate__day')
sort_key(r, field) ==
  IF field = "birthdate"
    THEN r.birthdate.y * 10000 + r.birthdate.m * 100 + r.birthdate.d
    ELSE r.birthdate.d
order_by(rows, field) ==
  LET sorted == SortPairs([i \in 1..Len(rows) |-> <<sort_key(rows[i], field), rows[i]>>])
  IN  [i \in 1..Len(rows) |-> sorted[i][2]]

\* BirthdayService.get_user_birthdays
get_user_birthdays(us, rs, user_id, include_deleted) ==
  IF ~UserExists(us, user_id) THEN << >>
  ELSE IF include_deleted
    THEN LET Keep(r) == r.user = user_id IN order_by(SelectSeq(rs, Keep), "birthdate")
  ELSE LET Keep(r) == r.user = user_id /\ ~r.is_deleted IN order_by(SelectSeq(rs, Keep), "birthdate")

\* BirthdayService.get_birthdays_by_category
get_birthdays_by_category(us, rs, user_id, category) ==
  IF ~validate_category(category) THEN << >>
  ELSE IF ~UserExists(us, user_id) THEN << >>
  ELSE LET Keep(r) == r.user = user_id /\ r.category = lower(category) /\ ~r.is_deleted
       IN  order_by(SelectSeq(rs, Keep), "birthdate")

\* BirthdayService.get_birthdays_by_month
get_birthdays_by_monthMutant(us, rs, user_id, month) ==
  IF month < 1 \/ month > 12 THEN << >>
  ELSE IF ~UserExists(us, user_id) THEN << >>
  ELSE LET Keep(r) == r.user = user_id /\ r.birthdate.m = month
       IN  order_by(SelectSeq(rs, Keep), "birthdate__day")
get_birthdays_by_month(us, rs, user_id, month) ==
  IF month < 1 \/ month > 12 THEN << >>
  ELSE IF ~UserExists(us, user_id) THEN << >>
  ELSE LET Keep(r) == r.user = user_id /\ r.birthdate.m = month /\ ~r.is_deleted
       IN  order_by(SelectSeq(rs, Keep), "birthdate__day")

\* BirthdayService.get_user_stats, line 217: the rows the statistics are
\* computed over, in id order
stats_birthdays(rs, user_id) ==
  LET Keep(r) == r.user = user_id /\ ~r.is_deleted IN SelectSeq(rs, Keep)
\* get_user_stats, lines 252-255: the age of one record
stats_ageMutant(birthdate, current_date) == current_date.y - birthdate.y
stats_age(birthdate, current_date) ==
  IF \/ birthdate.m > current_date.m
     \/ birthdate.m = current_date.m /\ birthdate.d > current_date.d
    THEN current_date.y - birthdate.y - 1
    ELSE current_date.y - birthdate.y
\* get_user_stats, lines 271-279: the days until the next occurrence of a
\* birthday, or None when one of the two replace calls raises ValueError
days_until(birthdate, current_date) ==
  LET first_try == date_replace(current_date.y, birthdate.m, birthdate.d)
  IN  IF first_try = None THEN None
      ELSE IF DateLess(first_try[1], current_date)
        THEN LET second_try == date_replace(current_date.y + 1, birthdate.m, birthdate.d)
             IN  IF second_try = None THEN None
                 ELSE Some(toordinal(second_try[1]) - toordinal(current_date))
      ELSE Some(toordinal(first_try[1]) - toordinal(current_date))
\* get_user_stats, lines 266-288: the loop from row i on, with min_days (None
\* for infinity) and next_birthday so far; raised when a row raises
RECURSIVE next_birthday_loop(_, _, _, _, _)
next_birthday_loop(birthdays, i, current_date, min_days, next_birthday) ==
  IF i > Len(birthdays) THEN [raised |-> FALSE, next_birthday |-> next_birthday]
  ELSE LET birthday == birthdays[i]
           days == days_until(birthday.birthdate, current_date)
       IN  IF days = None THEN [raised |-> TRUE, next_birthday |-> None]
           ELSE IF min_days = None \/ days[1] < min_days[1]
             THEN next_birthday_loop(birthdays, i + 1, current_date, days,
                    Some([name |-> birthday.name, date |-> birthday.birthdate,
                          days_until |-> days[1], category |-> birthday.category]))
           ELSE next_birthday_loop(birthdays, i + 1, current_date, min_days, next_birthday)
\* sum, min and max of a non-empty list of integers
RECURSIVE SumSeq(_)
SumSeq(xs) == IF xs = << >> THEN 0 ELSE Head(xs) + SumSeq(Tail(xs))
MinSeq(xs) == CHOOSE x \in {xs[i] : i \in 1..Len(xs)} : \A i \in 1..Len(xs) : x <= xs[i]
MaxSeq(xs) == CHOOSE x \in {xs[i] : i \in 1..Len(xs)} : \A i \in 1..Len(xs) : x >= xs[i]
\* round(total / count, 1) in tenths (no quotient of up to three ages lies
\* half way between two tenths)
RoundTenths(total, count) == (20 * total + count) \div (2 * count)
\* BirthdayService.get_user_stats; raised stands for the ValueError that
\* leaves the function from the next-birthday loop
get_user_stats(us, rs, current_date, user_id) ==
  IF ~UserExists(us, user_id) THEN [raised |-> FALSE, empty |-> TRUE]
  ELSE LET birthdays == stats_birthdays(rs, user_id)
           total_count == Len(birthdays)
       IN  IF total_count = 0
             THEN [raised |-> FALSE, empty |-> FALSE, total_birthdays |-> 0,
                   upcoming_this_month |-> 0, next_birthday |-> None,
                   category_breakdown |-> << >>, monthly_distribution |-> << >>,
                   average_age |-> 0]
           ELSE LET ages == [i \in 1..total_count |->
                               stats_age(birthdays[i].birthdate, current_date)]
                    Soon(b) == /\ b.birthdate.m = current_date.m
                               /\ b.birthdate.d >= current_date.d
                    found == next_birthday_loop(birthdays, 1, current_date, None, None)
                IN  IF found.raised THEN [raised |-> TRUE, ages |-> ages]
                    ELSE
                [raised |-> FALSE, empty |-> FALSE, total_birthdays |-> total_count,
                 upcoming_this_month |-> Len(SelectSeq(birthdays, Soon)),
                 next_birthday |-> found.next_birthday,
                 category_breakdown |->
                   [c \in {birthdays[i].category : i \in 1..Len(birthdays)} |->
                      LET Keep(r) == r.category = c IN Len(SelectSeq(birthdays, Keep))],
                 monthly_distribution |->
                   [m \in 1..12 |->
                      LET Keep(r) == r.birthdate.m = m IN Len(SelectSeq(birthdays, Keep))],
                 average_age |-> RoundTenths(SumSeq(ages), total_count),
                 ages |-> ages,
                 age_range |-> [min |-> MinSeq(ages), max |-> MaxSeq(ages)]]

\* ----------------------------------------------------------- admin_service
\* AdminService.get_all_birthdays: the rows in id order
get_all_birthdays(rs, include_deleted) ==
  LET Keep(r) == include_deleted \/ ~r.is_deleted IN SelectSeq(rs, Keep)
\* get_analytics_report, lines 85-88: the age of one row at the clock reading
\* current (the reads of datetime.now() for one row fall on one day)
analytics_age(birthdate, current) ==
  IF \/ birthdate.m > current.m
     \/ birthdate.m = current.m /\ birthdate.d > current.d
    THEN current.y - birthdate.y - 1
    ELSE current.y - birthdate.y
\* sorted(ages)
sorted(xs) ==
  LET pairs == SortPairs([i \in 1..Len(xs) |-> <<xs[i], xs[i]>>])
  IN  [i \in 1..Len(xs) |-> pairs[i][1]]
\* get_analytics_report, line 122: sorted(ages)[len(ages)//2], Python's
\* indices starting at 0
analytics_median(ages) ==
  IF ages = << >> THEN 0 ELSE sorted(ages)[(Len(ages) \div 2) + 1]
\* get_analytics_report, lines 117-123
age_stats(ages) ==
  [average |-> IF ages = << >> THEN 0 ELSE RoundTenths(SumSeq(ages), Len(ages)),
   min |-> IF ages = << >> THEN 0 ELSE MinSeq(ages),
   max |-> IF ages = << >> THEN 0 ELSE MaxSeq(ages),
   median |-> analytics_median(ages)]
\* get_analytics_report, lines 79-176: the report computed from the two lists
\* the function has read, at the clock reading current; rates and averages in
\* tenths
analytics_report(all_birthdays, active_birthdays, current) ==
      IF all_birthdays = << >> THEN [error |-> TRUE]
      ELSE
        LET df_data == [i \in 1..Len(all_birthdays) |->
                          [user_id |-> all_birthdays[i].user,
                           category |-> all_birthdays[i].category,
                           age |-> analytics_age(all_birthdays[i].birthdate, current),
                           birth_month |-> all_birthdays[i].birthdate.m,
                           is_deleted |-> all_birthdays[i].is_deleted,
                           has_image |-> Truthy(all_birthdays[i].image_url),
                           has_notes |-> Truthy(all_birthdays[i].notes)]]
            total_birthdays == Len(all_birthdays)
            active_birthdays_count == Len(active_birthdays)
            deleted_birthdays_count == total_birthdays - active_birthdays_count
            Live(b) == ~b.is_deleted
            live == SelectSeq(df_data, Live)
            ages == [i \in 1..Len(live) |-> live[i].age]
            Rate(count) == IF active_birthdays_count > 0
                             THEN RoundTenths(100 * count, active_birthdays_count)
                             ELSE 0
            WithImage(b) == b.has_image
            WithNotes(b) == b.has_notes
            owners == {live[i].user_id : i \in 1..Len(live)}
            user_birthday_counts ==
              [u \in owners |-> Cardinality({i \in 1..Len(live) : live[i].user_id = u})]
            most == IF owners = {} THEN 0
                    ELSE CHOOSE n \in {user_birthday_counts[u] : u \in owners} :
                           \A u \in owners : n >= user_birthday_counts[u]
        IN  [error |-> FALSE,
             overview |->
               [total_users |-> Cardinality({all_birthdays[i].user :
                                               i \in 1..Len(all_birthdays)}),
                total_birthdays |-> total_birthdays,
                active_birthdays |-> active_birthdays_count,
                deleted_birthdays |-> deleted_birthdays_count,
                deletion_rate |-> RoundTenths(100 * deleted_birthdays_count, total_birthdays)],
             category_distribution |->
               [c \in BIRTHDAY_CATEGORIES |->
                  LET InCat(b) == b.category = c
                      count == Len(SelectSeq(active_birthdays, InCat))
                  IN  [count |-> count, percentage |-> Rate(count)]],
             age_statistics |-> age_stats(ages),
             monthly_distribution |->
               [m \in 1..12 |->
                  LET InMonth(b) == b.birth_month = m IN Len(SelectSeq(live, InMonth))],
             engagement |->
               [birthdays_with_images |-> Len(SelectSeq(live, WithImage)),
                birthdays_with_notes |-> Len(SelectSeq(live, WithNotes)),
                image_usage_rate |-> Rate(Len(SelectSeq(live, WithImage))),
                notes_usage_rate |-> Rate(Len(SelectSeq(live, WithNotes)))],
             user_activity |->
               [average_birthdays_per_user |->
                  IF owners = {} THEN 0 ELSE RoundTenths(Len(live), Cardinality(owners)),
                most_birthdays_by_single_user |-> most,
                total_active_users |-> Cardinality(owners)],
             ages |-> ages]
\* AdminService.get_analytics_report with nothing written between its two
\* reads (lines 76 and 77)
get_analytics_report(rs, current) ==
  analytics_report(get_all_birthdays(rs, TRUE), get_all_birthdays(rs, FALSE), current)

\* ------------------------------------------------------------------ clock
Instant(date, hour) == [date |-> date, hour |-> hour]
\* datetime + timedelta(hours=h), for 0 <= h <= 24
RECURSIVE PlusHours(_, _)
PlusHours(t, h) ==
  IF t.hour + h < 24 THEN Instant(t.date, t.hour + h)
  ELSE PlusHours(Instant(NextDay(t.date), t.hour), h - 24)
\* The instant the model's behaviours start at
StartInstant == Instant(Date(2026, 9, 27), 8)

\* -------------------------------------------------------- timezone_helper
\* pytz.timezone(tz): the zones the model knows, with their UTC offset in
\* hours (none of them observes daylight saving time); any other identifier
\* raises UnknownTimeZoneError
KnownTimezones == {"UTC", "Asia/Tashkent", "Pacific/Honolulu"}
UtcOffset(tz) ==
  CASE tz = "UTC" -> 0
    [] tz = "Asia/Tashkent" -> 5
    [] tz = "Pacific/Honolulu" -> 0 - 10
\* datetime.now(tz) for a zone of the given offset, from the UTC instant t
ShiftHours(t, off) ==
  IF t.hour + off >= 24 THEN Instant(NextDay(t.date), t.hour + off - 24)
  ELSE IF t.hour + off < 0 THEN Instant(PrevDay(t.date), t.hour + off + 24)
  ELSE Instant(t.date, t.hour + off)
\* TimezoneHelper.get_user_time
get_user_timeMutant(user_tz, t) ==
  IF user_tz \in KnownTimezones THEN ShiftHours(t, UtcOffset(user_tz))
  ELSE ShiftHours(t, UtcOffset("Pacific/Honolulu"))
get_user_time(user_tz, t) ==
  IF user_tz \in KnownTimezones THEN ShiftHours(t, UtcOffset(user_tz))
  ELSE ShiftHours(t, 0)
\* datetime + timedelta(days=k)
RECURSIVE PlusDays(_, _)
PlusDays(t, k) == IF k = 0 THEN t ELSE PlusDays(Instant(NextDay(t.date), t.hour), k - 1)
\* date.today() on the server, whose clock is set to UTC
date_today(t) == t.date

\* ------------------------------------------------------ reminder_scheduler
\* BirthdayReminder.start: the daily job's hour, and the weekly job's weekday
\* and hour, on the scheduler's UTC clock
DailyCheckHour == 9
WeeklyCheckDay == 6
WeeklyCheckHour == 8
\* What the Bot API does with the calls made for one user
ApiOutcomes == [photo_ok : BOOLEAN, message_ok : BOOLEAN]
\* User.filter(is_deleted=False).prefetch_related('birthdays'): the users in
\* id order, and each user's rows (deleted ones too) in id order
RECURSIVE SeqOfSet(_)
SeqOfSet(S) ==
  IF S = {} THEN << >>
  ELSE LET x == CHOOSE y \in S : \A z \in S : y <= z IN <<x>> \o SeqOfSet(S \ {x})
active_users(us) == SeqOfSet({u \in DOMAIN us : ~us[u].is_deleted})
user_birthdays(rs, user_id) == LET Keep(r) == r.user = user_id IN SelectSeq(rs, Keep)

\* check_birthdays_today, lines 36-41
todays_birthdaysMutant(rs, user, t) ==
  LET user_today == get_user_time(user.timezone, t).date
      Keep(b) == /\ b.birthdate.m = user_today.m
                 /\ b.birthdate.d = user_today.d
  IN  SelectSeq(user_birthdays(rs, user.user_id), Keep)
todays_birthdaysServerDate(rs, user, t) ==
  LET user_today == date_today(t)
      Keep(b) == /\ ~b.is_deleted
                 /\ b.birthdate.m = user_today.m
                 /\ b.birthdate.d = user_today.d
  IN  SelectSeq(user_birthdays(rs, user.user_id), Keep)
todays_birthdays(rs, user, t) ==
  LET user_today == get_user_time(user.timezone, t).date
      Keep(b) == /\ ~b.is_deleted
                 /\ b.birthdate.m = user_today.m
                 /\ b.birthdate.d = user_today.d
  IN  SelectSeq(user_birthdays(rs, user.user_id), Keep)

\* _send_birthday_reminder: the reminder made for one user, with the age
\* written for each birthday and what became of the delivery
send_birthday_reminder(user, birthdays, t, api) ==
  [kind |-> "today", user_id |-> user.user_id, birthdays |-> birthdays,
   ages |-> [k \in 1..Len(birthdays) |-> date_today(t).y - birthdays[k].birthdate.y],
   days |-> [k \in 1..Len(birthdays) |-> 0],
   delivered |->
     IF Len(birthdays) = 1 /\ Truthy(birthdays[1].image_url)
       THEN (IF api.photo_ok THEN "photo"
             ELSE IF api.message_ok THEN "message" ELSE "failed")
       ELSE (IF api.message_ok THEN "message" ELSE "failed")]

\* check_birthdays_today, lines 31-45: the loop over the users from index i
RECURSIVE today_loop(_, _, _, _, _)
today_loop(queue, i, rs, t, api) ==
  IF i > Len(queue) THEN << >>
  ELSE LET user == queue[i]
           found == todays_birthdays(rs, user, t)
       IN  (IF found # << >>
              THEN <<send_birthday_reminder(user, found, t, api[user.user_id])>>
              ELSE << >>)
             \o today_loop(queue, i + 1, rs, t, api)
\* BirthdayReminder.check_birthdays_today: the log of one run
check_birthdays_today(us, rs, t, api) ==
  LET ids == active_users(us)
      queue == [k \in 1..Len(ids) |-> us[ids[k]]]
  IN  [kind |-> "today", at |-> t, seen |-> ids,
       events |-> today_loop(queue, 1, rs, t, api)]

\* check_upcoming_birthdays, lines 118-131: the (birthday, days_ahead) pairs
\* of one user, for days_ahead from d to 3
RECURSIVE upcoming_from(_, _, _, _)
upcoming_from(rs, user, t, d) ==
  IF d > 3 THEN << >>
  ELSE LET user_time == get_user_time(user.timezone, t)
           future_date == PlusDays(user_time, d).date
           Keep(b) == /\ ~b.is_deleted
                      /\ b.birthdate.m = future_date.m
                      /\ b.birthdate.d = future_date.d
           day_birthdays == SelectSeq(user_birthdays(rs, user.user_id), Keep)
       IN  [k \in 1..Len(day_birthdays) |-> <<day_birthdays[k], d>>]
             \o upcoming_from(rs, user, t, d + 1)
upcoming_birthdaysMutant(rs, user, t) == upcoming_from(rs, user, t, 0)
upcoming_birthdays(rs, user, t) == upcoming_from(rs, user, t, 1)

\* _send_upcoming_reminder
send_upcoming_reminder(user, upcoming, t, api) ==
  [kind |-> "upcoming", user_id |-> user.user_id,
   birthdays |-> [k \in 1..Len(upcoming) |-> upcoming[k][1]],
   ages |-> [k \in 1..Len(upcoming) |->
               date_today(t).y - upcoming[k][1].birthdate.y + 1],
   days |-> [k \in 1..Len(upcoming) |-> upcoming[k][2]],
   delivered |-> IF api.message_ok THEN "message" ELSE "failed"]

\* check_upcoming_birthdays, lines 115-134: the loop over the users from i
RECURSIVE upcoming_loop(_, _, _, _, _)
upcoming_loop(queue, i, rs, t, api) ==
  IF i > Len(queue) THEN << >>
  ELSE LET user == queue[i]
           found == upcoming_birthdays(rs, user, t)
       IN  (IF found # << >>
              THEN <<send_upcoming_reminder(user, found, t, api[user.user_id])>>
              ELSE << >>)
             \o upcoming_loop(queue, i + 1, rs, t, api)
\* BirthdayReminder.check_upcoming_birthdays: the log of one run
check_upcoming_birthdays(us, rs, t, api) ==
  LET ids == active_users(us)
      queue == [k \in 1..Len(ids) |-> us[ids[k]]]
  IN  [kind |-> "upcoming", at |-> t, seen |-> ids,
       events |-> upcoming_loop(queue, 1, rs, t, api)]

\* ----------------------------------------------------------------- inputs
\* The chat users that call the bot. User 1 stands for the superadmin, whose
\* row init_database creates.
CallerIds == {1, 2}
SuperadminUser == 1

N_al == <<"a","l">>
N_AL == <<" ","A","L">>
N_boli == <<"b","o"," ","l","i">>
N_digit == <<"a","1">>

D_alice == <<"1","9","9","0","-","0","9","-","2","7">>
D_bob == <<"1","9","8","5","-","1","2","-","3","1">>
D_john == <<"1","9","9","5","-","0","9","-","2","7">>
D_feb30 == <<"2","0","2","3","-","0","2","-","3","0">>
Str_Work == <<"W","o","r","k">>
Str_FRIEND == <<"F","R","I","E","N","D">>
Str_boss == <<"b","o","s","s">>

\* The (user, name) arguments of the service calls
CallInputs == {<<1, N_al>>, <<1, N_AL>>, <<1, N_boli>>, <<2, N_al>>, <<2, N_AL>>}

AddArgs(d, c, i, n) == [birthdate_str |-> d, category |-> c, image_url |-> i, notes |-> n]
ValidAddArgs ==
  { AddArgs(D_alice, Str_family, None, None),
    AddArgs(D_bob, Str_Work, Some(Url_png), Some("likes tea")) }
InvalidAddArgs ==
  { AddArgs(D_feb30, Str_family, None, None),
    AddArgs(D_alice, Str_boss, None, None),
    AddArgs(D_alice, Str_family, Some(Url_page), None) }
\* The add_birthday calls made: <<user_id, name, arguments>>
AddInputs ==
  {<<c[1], c[2], a>> : c \in CallInputs, a \in ValidAddArgs}
    \cup {<<2, N_al, a>> : a \in InvalidAddArgs}
    \cup {<<1, N_digit, a>> : a \in ValidAddArgs}

Patch(d, c, i, n) == [new_date_str |-> d, new_category |-> c, new_image_url |-> i, new_notes |-> n]
ValidPatches ==
  { Patch(Some(D_alice), Some(Str_family), Some(""), Some("")),
    Patch(None, None, None, None) }
InvalidPatches ==
  { Patch(Some(D_feb30), None, None, None),
    Patch(Some(D_bob), Some(Str_boss), None, None),
    Patch(None, None, Some(Url_bad), None) }
\* The update_birthday calls made: <<user_id, name, patch>>
UpdateInputs ==
  {<<c[1], c[2], p>> : c \in CallInputs, p \in ValidPatches}
    \cup {<<1, N_al, p>> : p \in InvalidPatches}

\* ---------------------------------------------------------------- actions
Call(op, user_id, name, ret) == [op |-> op, user_id |-> user_id, name |-> name, ret |-> ret]
NoCall == Call("none", 0, << >>, Ret(TRUE, ""))

\* The coroutines that run service calls, and the frame of a call in flight
Handlers == {"h1", "h2"}
IdleFrame ==
  [pc |-> "idle", op |-> "none", user_id |-> 0, name |-> << >>, args |-> None,
   existing |-> None, ret |-> Ret(TRUE, "")]
\* No scheduler job has run, or its log was dropped
NoJob == [kind |-> "idle"]

\* One service call run to completion: the tables and the returned result
Apply(out, op, user_id, name) ==
  /\ job = NoJob
  /\ Len(out.records) <= MaxRecords
  /\ users' = out.users
  /\ records' = out.records
  /\ last' = Call(op, user_id, name, out.ret)
  /\ UNCHANGED <<now, ticks, calls, job>>

AddBirthday(u, n, a) ==
  Apply(add_birthday(users, records, now, u, n, a.birthdate_str, a.category,
                     a.image_url, a.notes),
        "add_birthday", u, n)

DeleteBirthday(u, n) ==
  Apply(delete_birthday(users, records, now, u, n), "delete_birthday", u, n)

RestoreDeletedBirthday(u, n) ==
  Apply(restore_deleted_birthday(users, records, u, n),
        "restore_deleted_birthday", u, n)

UpdateBirthday(u, n, p) ==
  Apply(update_birthday(users, records, now, u, n, p.new_date_str, p.new_category,
                        p.new_image_url, p.new_notes),
        "update_birthday", u, n)

\* Time passes
Tick ==
  /\ job = NoJob
  /\ ticks < MaxTicks
  /\ now' = PlusHours(now, 1)
  /\ ticks' = ticks + 1
  /\ UNCHANGED <<users, records, last, calls, job>>

\* init_database: empty tables but for the superadmin's row
Init ==
  /\ users = (SuperadminUser :> NewUser(SuperadminUser))
  /\ records = << >>
  /\ now = StartInstant
  /\ ticks = 0
  /\ last = NoCall
  /\ calls = [p \in Handlers |-> IdleFrame]
  /\ job = NoJob

\* The service calls, each run to completion before the next starts
Next ==
  \/ \E c \in AddInputs : AddBirthday(c[1], c[2], c[3])
  \/ \E c \in CallInputs : DeleteBirthday(c[1], c[2])
  \/ \E c \in CallInputs : RestoreDeletedBirthday(c[1], c[2])
  \/ \E c \in UpdateInputs : UpdateBirthday(c[1], c[2], c[3])

Spec == Init /\ [][Next]_vars

\* ------------------------------------------------- interleaved service calls
\* The handlers run as coroutines of one event loop: a call gives way at each
\* await, that is at each query it sends to the database. One step below is
\* one query with the synchronous code before it.
ConcNames == {N_al, N_AL}
ConcAddArgs == {AddArgs(D_alice, Str_family, None, None)}

Finish(p, op, ret) ==
  /\ calls' = [calls EXCEPT ![p] = [@ EXCEPT !.pc = "done", !.ret = ret]]
  /\ last' = Call(op, calls[p].user_id, calls[p].name, ret)

\* add_birthday up to its first await: validation, then User.get_or_create
AddStart(p, u, n, a) ==
  /\ calls[p].pc = "idle"
  /\ LET bad == add_validate(now, n, a.birthdate_str, a.category, a.image_url)
         frame == [IdleFrame EXCEPT !.op = "add_birthday", !.user_id = u, !.name = n,
                                    !.args = Some(a)]
     IN  IF bad # None
           THEN /\ calls' = [calls EXCEPT ![p] = [frame EXCEPT !.pc = "done",
                                                              !.ret = Ret(FALSE, bad[1])]]
                /\ last' = Call("add_birthday", u, n, Ret(FALSE, bad[1]))
                /\ UNCHANGED users
           ELSE /\ calls' = [calls EXCEPT ![p] = [frame EXCEPT !.pc = "add_lookup"]]
                /\ users' = get_or_create(users, u)
                /\ UNCHANGED last
  /\ UNCHANGED <<records, now, ticks, job>>

\* add_birthday, line 39: the lookup of an existing row
AddLookup(p) ==
  /\ calls[p].pc = "add_lookup"
  /\ calls' = [calls EXCEPT ![p] =
                 [@ EXCEPT !.pc = "add_write",
                           !.existing = first(records, calls[p].user_id,
                                             calls[p].name, None)]]
  /\ UNCHANGED <<users, records, now, ticks, last, job>>

\* add_birthday, lines 40-74: refuse, or save the restored row, or create
AddWrite(p) ==
  /\ calls[p].pc = "add_write"
  /\ LET f == calls[p]
         a == f.args[1]
         out == add_write(users, records, f.existing, f.user_id, f.name,
                          parse_date(a.birthdate_str, now.date.y)[1], a.category,
                          a.image_url, a.notes)
     IN  /\ Len(out.records) <= MaxRecords
         /\ records' = out.records
         /\ Finish(p, "add_birthday", out.ret)
  /\ UNCHANGED <<users, now, ticks, job>>

\* delete_birthday / restore_deleted_birthday up to the first await:
\* User.get_or_none
LookupStart(p, op, u, n) ==
  /\ calls[p].pc = "idle"
  /\ LET frame == [IdleFrame EXCEPT !.op = op, !.user_id = u, !.name = n] IN
       IF ~UserExists(users, u)
         THEN /\ calls' = [calls EXCEPT ![p] = [frame EXCEPT !.pc = "done",
                                                            !.ret = Ret(FALSE, "User not found")]]
              /\ last' = Call(op, u, n, Ret(FALSE, "User not found"))
         ELSE /\ calls' = [calls EXCEPT ![p] = [frame EXCEPT !.pc = "lookup"]]
              /\ UNCHANGED last
  /\ UNCHANGED <<users, records, now, ticks, job>>
DeleteStart(p, u, n) == LookupStart(p, "delete_birthday", u, n)
RestoreStart(p, u, n) == LookupStart(p, "restore_deleted_birthday", u, n)

\* delete_birthday, lines 87-93: the lookup of the active row
DeleteLookup(p) ==
  /\ calls[p].pc = "lookup" /\ calls[p].op = "delete_birthday"
  /\ LET birthday == first(records, calls[p].user_id, calls[p].name, Some(FALSE)) IN
       IF birthday = None
         THEN Finish(p, "delete_birthday", Ret(FALSE, "not found"))
         ELSE /\ calls' = [calls EXCEPT ![p] = [@ EXCEPT !.pc = "save", !.existing = birthday]]
              /\ UNCHANGED last
  /\ UNCHANGED <<users, records, now, ticks, job>>

\* delete_birthday, lines 96-100: the row as read is flagged and saved
DeleteSave(p) ==
  /\ calls[p].pc = "save" /\ calls[p].op = "delete_birthday"
  /\ records' = save(records, soft_delete(calls[p].existing[1], now))
  /\ Finish(p, "delete_birthday", Ret(TRUE, "deleted"))
  /\ UNCHANGED <<users, now, ticks, job>>

\* restore_deleted_birthday, lines 311-318: the lookup of the deleted row
RestoreLookup(p) ==
  /\ calls[p].pc = "lookup" /\ calls[p].op = "restore_deleted_birthday"
  /\ LET birthday == first(records, calls[p].user_id, calls[p].name, Some(TRUE)) IN
       IF birthday = None
         THEN Finish(p, "restore_deleted_birthday", Ret(FALSE, "No deleted birthday found"))
         ELSE /\ calls' = [calls EXCEPT ![p] = [@ EXCEPT !.pc = "save", !.existing = birthday]]
              /\ UNCHANGED last
  /\ UNCHANGED <<users, records, now, ticks, job>>

\* restore_deleted_birthday, lines 320-325: the row as read is saved active
RestoreSave(p) ==
  /\ calls[p].pc = "save" /\ calls[p].op = "restore_deleted_birthday"
  /\ records' = save(records, undelete(calls[p].existing[1]))
  /\ Finish(p, "restore_deleted_birthday", Ret(TRUE, "restored successfully"))
  /\ UNCHANGED <<users, now, ticks, job>>

\* The handler has answered the user and ends
Return(p) ==
  /\ calls[p].pc = "done"
  /\ calls' = [calls EXCEPT ![p] = IdleFrame]
  /\ UNCHANGED <<users, records, now, ticks, last, job>>

NextConc ==
  \/ \E p \in Handlers, n \in ConcNames, a \in ConcAddArgs : AddStart(p, SuperadminUser, n, a)
  \/ \E p \in Handlers : AddLookup(p)
  \/ \E p \in Handlers : AddWrite(p)
  \/ \E p \in Handlers, n \in ConcNames : DeleteStart(p, SuperadminUser, n)
  \/ \E p \in Handlers : DeleteLookup(p)
  \/ \E p \in Handlers : DeleteSave(p)
  \/ \E p \in Handlers, n \in ConcNames : RestoreStart(p, SuperadminUser, n)
  \/ \E p \in Handlers : RestoreLookup(p)
  \/ \E p \in Handlers : RestoreSave(p)
  \/ \E p \in Handlers : Return(p)

SpecConc == Init /\ [][NextConc]_vars

\* ------------------------------------------------------- the scheduler jobs
\* The daily job, run to completion: what it sent is kept in job
CheckBirthdaysToday ==
  /\ job = NoJob
  /\ now.hour = DailyCheckHour
  /\ \E api \in [DOMAIN users -> ApiOutcomes] :
       job' = check_birthdays_today(users, records, now, api)
  /\ UNCHANGED <<users, records, now, ticks, last, calls>>

\* The weekly job, run to completion
CheckUpcomingBirthdays ==
  /\ job = NoJob
  /\ weekday(now.date) = WeeklyCheckDay
  /\ now.hour = WeeklyCheckHour
  /\ \E api \in [DOMAIN users -> ApiOutcomes] :
       job' = check_upcoming_birthdays(users, records, now, api)
  /\ UNCHANGED <<users, records, now, ticks, last, calls>>

\* The log of the finished job is dropped
JobDone ==
  /\ job # NoJob
  /\ job' = NoJob
  /\ UNCHANGED <<users, records, now, ticks, last, calls>>

\* The users table as the bot finds it: the superadmin's row, and the row of
\* a second user whose timezone and soft-delete columns (read, never written
\* by the bot) hold any value
SecondUserRows ==
  { [user_id |-> 2, timezone |-> "Asia/Tashkent", is_deleted |-> FALSE],
    [user_id |-> 2, timezone |-> "Asia/Tashkent", is_deleted |-> TRUE],
    [user_id |-> 2, timezone |-> "Pacific/Honolulu", is_deleted |-> FALSE],
    [user_id |-> 2, timezone |-> "Mars/Olympus", is_deleted |-> FALSE] }
InitRemind ==
  /\ \E row \in SecondUserRows :
       users = (SuperadminUser :> NewUser(SuperadminUser)) @@ (2 :> row)
  /\ records = << >>
  /\ now = StartInstant
  /\ ticks = 0
  /\ last = NoCall
  /\ calls = [p \in Handlers |-> IdleFrame]
  /\ job = NoJob

RemindAddInputs ==
  { <<1, N_al, AddArgs(D_alice, Str_family, None, None)>>,
    <<1, N_boli, AddArgs(D_john, Str_Work, Some(Url_png), Some("likes tea"))>>,
    <<1, N_boli, AddArgs(D_bob, Str_family, None, None)>>,
    <<2, N_AL, AddArgs(D_john, Str_Work, Some(Url_png), Some("likes tea"))>> }
RemindCallInputs == {<<1, N_al>>, <<1, N_boli>>, <<2, N_al>>}

NextRemind ==
  \/ \E c \in RemindAddInputs : AddBirthday(c[1], c[2], c[3])
  \/ \E c \in RemindCallInputs : DeleteBirthday(c[1], c[2])
  \/ Tick
  \/ CheckBirthdaysToday
  \/ CheckUpcomingBirthdays
  \/ JobDone

SpecRemind == InitRemind /\ [][NextRemind]_vars

\* ------------------------------------------------------------- /broadcast
\* message.from_user.id, a Python int, and the configured SUPERADMIN_ID, a
\* Python str: values of different types, which == tells apart
FromUserDigits(user_id) == IF user_id = SuperadminUser THEN SUPERADMIN_ID ELSE "2"
PyInt(digits) == [int |-> digits]
PyStr(chars) == [str |-> chars]
\* is_superadmin
is_superadmin(from_user) == PyInt(FromUserDigits(from_user)) = PyStr(SUPERADMIN_ID)
\* cmd_broadcast, lines 288-296: the loop over the users from index i, each
\* send counted as delivered or failed
RECURSIVE broadcast_loop(_, _, _)
broadcast_loop(ids, i, api) ==
  IF i > Len(ids) THEN << >>
  ELSE <<[user_id |-> ids[i],
          delivered |-> IF api[ids[i]].message_ok THEN "message" ELSE "failed"]>>
         \o broadcast_loop(ids, i + 1, api)
\* cmd_broadcast, lines 281-302: the batch and the counts of its report
broadcast_batch(us, api) ==
  LET sent == broadcast_loop(active_users(us), 1, api)
      Ok(e) == e.delivered = "message"
      Bad(e) == e.delivered = "failed"
  IN  [kind |-> "broadcast", reply |-> "complete", sent |-> sent,
       success_count |-> Len(SelectSeq(sent, Ok)),
       failed_count |-> Len(SelectSeq(sent, Bad))]
\* cmd_broadcast: what the handler did for the sender (the replies to the
\* sender's own chat are taken as delivered)
cmd_broadcast(us, from_user, has_text, api) ==
  IF ~is_superadmin(from_user)
    THEN [kind |-> "broadcast", reply |-> "denied", sent |-> << >>,
          success_count |-> 0, failed_count |-> 0]
  ELSE IF ~has_text
    THEN [kind |-> "broadcast", reply |-> "usage", sent |-> << >>,
          success_count |-> 0, failed_count |-> 0]
  ELSE broadcast_batch(us, api)

\* ------------------------------------------- the engine over stored tables
D_sep28 == <<"1","9","9","0","-","0","9","-","2","8">>
D_sep30 == <<"1","9","9","0","-","0","9","-","3","0">>
D_oct01 == <<"1","9","8","8","-","1","0","-","0","1">>
D_jan01 == <<"2","0","0","0","-","0","1","-","0","1">>
D_jan03 == <<"1","9","9","1","-","0","1","-","0","3">>
D_jan04 == <<"1","9","9","0","-","0","1","-","0","4">>
D_leap == <<"1","9","9","2","-","0","2","-","2","9">>
D_future == <<"2","0","3","0","-","0","6","-","1","5">>
D_far == <<"2","0","8","0","-","0","1","-","0","1">>
\* A stored table: for each of three (user, name) slots either no record, or
\* the record add_birthday makes of a date string, or that record deleted
Absent == [present |-> FALSE]
Stored(d, gone) == [present |-> TRUE, birthdate_str |-> d, deleted |-> gone]
SlotChoices(dates) == {Absent} \cup {Stored(d, g) : d \in dates, g \in BOOLEAN}
fill_slot(out, t, user_id, name, category, image_url, notes, choice) ==
  IF ~choice.present THEN out
  ELSE LET added == add_birthday(out.users, out.records, t, user_id, name,
                                 choice.birthdate_str, category, image_url, notes)
       IN  IF choice.deleted /\ added.ret.success
             THEN delete_birthday(added.users, added.records, t, user_id, name)
             ELSE added
build_table(us, t, a, b, c) ==
  LET o1 == fill_slot(Outcome(us, << >>, Ret(TRUE, "")), t, 1, N_al, Str_family,
                      None, None, a)
      o2 == fill_slot(o1, t, 1, N_boli, Str_Work, Some(Url_png), Some("likes tea"), b)
  IN  fill_slot(o2, t, 2, N_AL, Str_FRIEND, None, None, c)

\* The scheduler's jobs and /broadcast over stored tables, at the hours of
\* the jobs around an ordinary Sunday and around a turn of the year
SchedInstants ==
  { Instant(Date(2026, 9, 27), 8), Instant(Date(2028, 12, 31), 8),
    Instant(Date(2029, 1, 1), 8) }
SchedDatesA == {D_alice, D_sep30, D_oct01, D_bob, D_jan01, D_jan04}
SchedDatesB == {D_john, D_sep28, D_jan03}
SchedDatesC == {D_john, D_bob, D_jan01}
\* The users tables of the scheduler runs: the second user's row varies, and
\* in one table the first user's stored timezone is not a zone identifier
SchedUserTables ==
  {(SuperadminUser :> NewUser(SuperadminUser)) @@ (2 :> row) : row \in SecondUserRows}
    \cup
  {(SuperadminUser :> [NewUser(SuperadminUser) EXCEPT !.timezone = "Mars/Olympus"])
     @@ (2 :> [user_id |-> 2, timezone |-> "Pacific/Honolulu", is_deleted |-> FALSE])}
InitSched ==
  /\ \E table0 \in SchedUserTables, t \in SchedInstants,
        a \in SlotChoices(SchedDatesA), b \in SlotChoices(SchedDatesB),
        c \in SlotChoices(SchedDatesC) :
       LET table == build_table(table0, t, a, b, c)
       IN  /\ users = table.users
           /\ records = table.records
           /\ now = t
  /\ ticks = 0
  /\ last = NoCall
  /\ calls = [p \in Handlers |-> IdleFrame]
  /\ job = NoJob

\* /broadcast sent by from_user, with or without a text
Broadcast(from_user, has_text) ==
  /\ job = NoJob
  /\ \E api \in [DOMAIN users -> ApiOutcomes] :
       job' = [cmd_broadcast(users, from_user, has_text, api) EXCEPT !.kind = "broadcast"]
                @@ [from_user |-> from_user, has_text |-> has_text, at |-> now]
  /\ UNCHANGED <<users, records, now, ticks, last, calls>>

NextSched ==
  \/ Tick
  \/ CheckBirthdaysToday
  \/ CheckUpcomingBirthdays
  \/ \E u \in CallerIds, has_text \in BOOLEAN : Broadcast(u, has_text)
  \/ JobDone

SpecSched == InitSched /\ [][NextSched]_vars

\* The statistics over stored tables, at reference dates in leap and other
\* years
StatsInstants ==
  { Instant(Date(2024, 9, 27), 8), Instant(Date(2026, 9, 27), 8),
    Instant(Date(2028, 2, 29), 8), Instant(Date(2028, 12, 31), 8) }
StatsDatesA == {D_alice, D_bob, D_oct01, D_jan01, D_leap, D_future, D_far}
StatsDatesB == {D_john, D_sep28, D_leap, D_bob}
StatsDatesC == {D_alice, D_jan01, D_future}
InitStats ==
  /\ \E t \in StatsInstants,
        a \in SlotChoices(StatsDatesA), b \in SlotChoices(StatsDatesB),
        c \in SlotChoices(StatsDatesC) :
       LET table == build_table(SuperadminUser :> NewUser(SuperadminUser), t, a, b, c)
       IN  /\ users = table.users
           /\ records = table.records
           /\ now = t
  /\ ticks = 0
  /\ last = NoCall
  /\ calls = [p \in Handlers |-> IdleFrame]
  /\ job = NoJob

\* /my_stats of a user: BirthdayService.get_user_stats
GetUserStats(user_id) ==
  /\ job = NoJob
  /\ job' = [kind |-> "stats", user_id |-> user_id, at |-> now,
             result |-> get_user_stats(users, records, date_today(now), user_id)]
  /\ UNCHANGED <<users, records, now, ticks, last, calls>>

\* /analytics: AdminService.get_analytics_report
GetAnalyticsReport ==
  /\ job = NoJob
  /\ job' = [kind |-> "analytics", at |-> now,
             result |-> get_analytics_report(records, date_today(now))]
  /\ UNCHANGED <<users, records, now, ticks, last, calls>>

NextStats ==
  \/ Tick
  \/ \E u \in CallerIds : GetUserStats(u)
  \/ GetAnalyticsReport
  \/ JobDone

SpecStats == InitStats /\ [][NextStats]_vars

\* ------------------------------------------------- /analytics and writers
\* get_analytics_report awaits get_all_birthdays twice (lines 76 and 77);
\* the handlers of other updates run while it waits.
\* Most service calls that land between the two reads in one behaviour
\* (counted in ticks; the clock stands still here).
MaxWrites == 1
N_cy == <<"c","y">>
\* A table of up to six records of two users, four of them of one category
build_report_table(us, t, slots) ==
  LET o3 == build_table(us, t, slots[1], slots[2], slots[3])
      o4 == fill_slot(o3, t, 1, N_cy, Str_family, None, None, slots[4])
      o5 == fill_slot(o4, t, 2, N_boli, Str_family, None, None, slots[5])
  IN  fill_slot(o5, t, 2, N_cy, Str_family, None, None, slots[6])
InitReport ==
  /\ \E slots \in [1..6 -> SlotChoices({D_alice})] :
       LET table == build_report_table(SuperadminUser :> NewUser(SuperadminUser),
                                       StartInstant, slots)
       IN  /\ users = table.users
           /\ records = table.records
  /\ now = StartInstant
  /\ ticks = 0
  /\ last = NoCall
  /\ calls = [p \in Handlers |-> IdleFrame]
  /\ job = NoJob

\* get_analytics_report, line 76: the first read, of all rows
ReportReadAll ==
  /\ job = NoJob
  /\ job' = [kind |-> "reading", at |-> now,
             all_birthdays |-> get_all_birthdays(records, TRUE)]
  /\ UNCHANGED <<users, records, now, ticks, last, calls>>

\* get_analytics_report, lines 77-176: the second read, of the active rows,
\* and the report
ReportReadActive ==
  /\ job.kind = "reading"
  /\ job' = [kind |-> "analytics", at |-> job.at,
             result |-> analytics_report(job.all_birthdays,
                                         get_all_birthdays(records, FALSE),
                                         date_today(now))]
  /\ UNCHANGED <<users, records, now, ticks, last, calls>>

\* A service call of another handler, run while the report waits
WriteBetweenReads(out, op, user_id, name) ==
  /\ job.kind = "reading"
  /\ ticks < MaxWrites
  /\ users' = out.users
  /\ records' = out.records
  /\ last' = Call(op, user_id, name, out.ret)
  /\ ticks' = ticks + 1
  /\ UNCHANGED <<now, calls, job>>
AddBetweenReads(u, n) ==
  WriteBetweenReads(add_birthday(users, records, now, u, n, D_alice, Str_family,
                                 None, None),
                    "add_birthday", u, n)
DeleteBetweenReads(u, n) ==
  WriteBetweenReads(delete_birthday(users, records, now, u, n), "delete_birthday", u, n)
ReportWriters == {<<1, N_al>>, <<2, N_cy>>}

NextReport ==
  \/ ReportReadAll
  \/ ReportReadActive
  \/ \E c \in ReportWriters : AddBetweenReads(c[1], c[2])
  \/ \E c \in ReportWriters : DeleteBetweenReads(c[1], c[2])
  \/ JobDone

SpecReport == InitReport /\ [][NextReport]_vars

\* ------------------------------------------------------- interactive /add
\* The conversation of one chat with the bot. A message a user types has
\* from_user = that user; a message the bot sent (the ones that carry inline
\* buttons) has from_user = the bot's own account. A callback query carries
\* the message whose button was pressed.
BotAccount == 3
\* Most /add conversations started in one behaviour (counted in ticks; the
\* clock stands still here).
MaxAddFlows == 1
\* message.from_user.id of a message typed by a user, and of
\* callback_query.message
TypedBy(user_id) == user_id
BotAuthored == BotAccount
\* ' '.join(parts)
RECURSIVE join(_)
join(parts) ==
  IF Len(parts) = 1 THEN parts[1]
  ELSE parts[1] \o <<" ">> \o join(Tail(parts))
\* message.text.lower() == 'skip', on the texts typed
SkipWords == {"skip", "Skip"}
\* The FSM context of the chat: the state set, the data stored, and which
\* inline keyboard the bot's latest message carries
Conversation(sender, fsm_state, data, keyboard) ==
  [kind |-> "add_flow", sender |-> sender, state |-> fsm_state, data |-> data,
   keyboard |-> keyboard]
\* state.update_data(key=value)
update_data(data, key, value) ==
  [k \in DOMAIN data \cup {key} |-> IF k = key THEN value ELSE data[k]]
\* data.get(key, default)
data_get(data, key, default) == IF key \in DOMAIN data THEN data[key] ELSE default

\* The data of the inline buttons
Data_cat_work == <<"c","a","t","_","w","o","r","k">>
Data_cat_other == <<"c","a","t","_","o","t","h","e","r">>
Data_add_photo == <<"a","d","d","_","p","h","o","t","o">>
Data_skip_photo == <<"s","k","i","p","_","p","h","o","t","o">>
Data_add_notes == <<"a","d","d","_","n","o","t","e","s">>
Data_skip_notes == <<"s","k","i","p","_","n","o","t","e","s">>
Data_view_cat_work == <<"v","i","e","w","_","c","a","t","_","w","o","r","k">>
Data_update_date_1 == <<"u","p","d","a","t","e","_","d","a","t","e","_","1">>
Data_admin_birthdays_active == <<"a","d","m","i","n","_","b","i","r","t","h","d","a","y","s","_","a","c","t","i","v","e">>
Data_admin_birthdays_all == <<"a","d","m","i","n","_","b","i","r","t","h","d","a","y","s","_","a","l","l">>
Data_export_active == <<"e","x","p","o","r","t","_","a","c","t","i","v","e">>
Data_export_all == <<"e","x","p","o","r","t","_","a","l","l">>
\* str.startswith
startswith(s, prefix) ==
  Len(s) >= Len(prefix) /\ SubSeq(s, 1, Len(prefix)) = prefix
\* str.replace(old, ''), every occurrence from the left
RECURSIVE remove_all(_, _)
remove_all(s, old) ==
  IF Len(s) < Len(old) THEN s
  ELSE IF SubSeq(s, 1, Len(old)) = old
    THEN remove_all(SubSeq(s, Len(old) + 1, Len(s)), old)
  ELSE <<Head(s)>> \o remove_all(Tail(s), old)

\* main(), lines 37-39, with register_user_handlers line 589 and
\* register_admin_handlers line 364: the handlers of the callback-query
\* observer in the order of their registration, both registered without a
\* filter
callback_handlers == <<"handle_category_callback", "handle_admin_callbacks">>
filters_pass(handler, data) == TRUE
\* The observer calls the first handler whose filters pass, and no other
trigger(data) ==
  LET passing == {i \in 1..Len(callback_handlers) :
                    filters_pass(callback_handlers[i], data)}
  IN  IF passing = {} THEN "unhandled"
      ELSE callback_handlers[CHOOSE i \in passing : \A j \in passing : i <= j]
\* handle_category_callback: the function it passes the callback to
handle_category_callback(data) ==
  IF startswith(data, <<"c","a","t","_">>) THEN "process_category_selection"
  ELSE IF data \in {Data_add_photo, Data_skip_photo} THEN "process_photo_choice"
  ELSE IF data \in {Data_add_notes, Data_skip_notes} THEN "process_notes_choice"
  ELSE IF startswith(data, <<"v","i","e","w","_","c","a","t","_">>)
    THEN "show_category_birthdays"
  ELSE IF startswith(data, <<"u","p","d","a","t","e","_">>) THEN "handle_update_callback"
  ELSE "nothing"
\* handle_admin_callbacks: the function it passes the callback to
handle_admin_callbacks(data) ==
  IF data = Data_admin_birthdays_active THEN "show_admin_birthdays"
  ELSE IF data = Data_admin_birthdays_all THEN "show_admin_birthdays"
  ELSE IF data \in {Data_export_active, Data_export_all} THEN "handle_export_callback"
  ELSE "nothing"
\* What becomes of a callback query with that data
passed_to(data) ==
  IF trigger(data) = "handle_category_callback" THEN handle_category_callback(data)
  ELSE IF trigger(data) = "handle_admin_callbacks" THEN handle_admin_callbacks(data)
  ELSE "nothing"

\* cmd_add_interactive
CmdAddInteractive(u) ==
  /\ job = NoJob
  /\ ticks < MaxAddFlows
  /\ job' = Conversation(u, "waiting_for_category", << >>, "none")
  /\ ticks' = ticks + 1
  /\ UNCHANGED <<users, records, now, last, calls>>

\* process_birthday_data, on the parts of the text typed
ProcessBirthdayData(parts) ==
  /\ job.kind = "add_flow"
  /\ job.state = "waiting_for_category"
  /\ job' = IF Len(parts) < 2 THEN job
            ELSE [job EXCEPT
                    !.data = update_data(update_data(@, "name",
                                                     join(SubSeq(parts, 1, Len(parts) - 1))),
                                         "date_str", parts[Len(parts)]),
                    !.keyboard = "category"]
  /\ UNCHANGED <<users, records, now, ticks, last, calls>>

\* process_category_selection, on the button cat_<category>
ProcessCategorySelection(data) ==
  /\ job.kind = "add_flow"
  /\ job.keyboard = "category"
  /\ passed_to(data) = "process_category_selection"
  /\ job' = [job EXCEPT !.data = update_data(@, "category",
                                             remove_all(data, <<"c","a","t","_">>)),
                        !.keyboard = "photo"]
  /\ UNCHANGED <<users, records, now, ticks, last, calls>>

\* process_photo_choice, on the buttons add_photo and skip_photo
ProcessPhotoChoice(data) ==
  /\ job.kind = "add_flow"
  /\ job.keyboard = "photo"
  /\ passed_to(data) = "process_photo_choice"
  /\ job' = IF data = Data_add_photo
              THEN [job EXCEPT !.state = "waiting_for_image", !.keyboard = "none"]
              ELSE [job EXCEPT !.data = update_data(@, "image_url", None),
                               !.keyboard = "notes"]
  /\ UNCHANGED <<users, records, now, ticks, last, calls>>

\* process_image_url, on the text typed
ProcessImageUrl(text) ==
  /\ job.kind = "add_flow"
  /\ job.state = "waiting_for_image"
  /\ job' = [job EXCEPT
               !.data = update_data(@, "image_url",
                                    IF text \in SkipWords THEN None ELSE Some(text)),
               !.keyboard = "notes"]
  /\ UNCHANGED <<users, records, now, ticks, last, calls>>

\* finalize_birthday_creation(message, state), from_user_id being
\* message.from_user.id
finalize_birthday_creation(from_user_id, data) ==
  LET out == add_birthday(users, records, now, from_user_id, data["name"],
                          data["date_str"], data_get(data, "category", Str_other),
                          data_get(data, "image_url", None), data_get(data, "notes", None))
  IN  /\ Len(out.records) <= MaxRecords
      /\ users' = out.users
      /\ records' = out.records
      /\ last' = Call("add_birthday", from_user_id, data["name"], out.ret)
      /\ job' = [kind |-> "add_done", sender |-> job.sender, data |-> data]
      /\ UNCHANGED <<now, ticks, calls>>

\* process_notes_choice, on the buttons add_notes and skip_notes
ProcessNotesChoice(data) ==
  /\ job.kind = "add_flow"
  /\ job.keyboard = "notes"
  /\ passed_to(data) = "process_notes_choice"
  /\ IF data = Data_add_notes
       THEN /\ job' = [job EXCEPT !.state = "waiting_for_notes", !.keyboard = "none"]
            /\ UNCHANGED <<users, records, now, ticks, last, calls>>
       ELSE finalize_birthday_creation(BotAuthored, update_data(job.data, "notes", None))

\* process_notes, on the text typed
ProcessNotes(text) ==
  /\ job.kind = "add_flow"
  /\ job.state = "waiting_for_notes"
  /\ finalize_birthday_creation(TypedBy(job.sender),
                                update_data(job.data, "notes",
                                            IF text \in SkipWords THEN None ELSE Some(text)))

\* What the users type and press
TypedBirthdayData ==
  { <<N_al, D_alice>>, <<<<"b","o">>, <<"l","i">>, D_bob>>, <<N_al>> }
TypedImageUrls == {Url_png, Url_bad, "Skip"}
TypedNotes == {"likes tea", "skip"}
PressedCategories == {Data_cat_work, Data_cat_other}
\* The buttons of the other keyboards the bot sends
OtherButtons ==
  { Data_view_cat_work, Data_update_date_1, Data_admin_birthdays_active,
    Data_admin_birthdays_all, Data_export_active, Data_export_all }

\* A callback query of one of the other keyboards: the handler the observer
\* calls and the function that handler passes it to
CallbackQuery(data) ==
  /\ job = NoJob
  /\ job' = [kind |-> "callback", data |-> data, handler |-> trigger(data),
             passed_to |-> passed_to(data)]
  /\ UNCHANGED <<users, records, now, ticks, last, calls>>

NextAddFlow ==
  \/ \E u \in CallerIds : CmdAddInteractive(u)
  \/ \E parts \in TypedBirthdayData : ProcessBirthdayData(parts)
  \/ \E c \in PressedCategories : ProcessCategorySelection(c)
  \/ \E b \in {Data_add_photo, Data_skip_photo} : ProcessPhotoChoice(b)
  \/ \E text \in TypedImageUrls : ProcessImageUrl(text)
  \/ \E b \in {Data_add_notes, Data_skip_notes} : ProcessNotesChoice(b)
  \/ \E data \in OtherButtons : CallbackQuery(data)
  \/ \E text \in TypedNotes : ProcessNotes(text)
  \/ JobDone

SpecAddFlow == Init /\ [][NextAddFlow]_vars

\* ================================================================== claims
\* Helpers of the claims, stated without the operators of the model.
\* Two names are the same after trimming and ignoring letter case.
SameName(a, b) == lower(strip(a)) = lower(strip(b))
ActiveIds(rs, user_id, name) ==
  {i \in 1..Len(rs) : rs[i].user = user_id /\ SameName(rs[i].name, name) /\ ~rs[i].is_deleted}
DeletedIds(rs, user_id, name) ==
  {i \in 1..Len(rs) : rs[i].user = user_id /\ SameName(rs[i].name, name) /\ rs[i].is_deleted}
OwnedIds(rs, user_id) == {i \in 1..Len(rs) : rs[i].user = user_id}
\* What the valid inputs denote
ExpectedDate(date_str) ==
  CASE date_str = D_alice -> Date(1990, 9, 27)
    [] date_str = D_bob -> Date(1985, 12, 31)
    [] date_str = D_john -> Date(1995, 9, 27)
ExpectedCategory(category) ==
  CASE category = Str_family -> Str_family
    [] category = Str_Work -> Str_work
    [] category = Str_FRIEND -> Str_friend
\* A later reading of the clock
Later == {now, PlusHours(now, 1)}
AddOf(c) ==
  add_birthday(users, records, now, c[1], c[2], c[3].birthdate_str, c[3].category,
               c[3].image_url, c[3].notes)
ValidAddInputs == {c \in AddInputs : c[3] \in ValidAddArgs /\ c[2] # N_digit}

\* C1: after any sequence of add, update, delete and restore calls run one at
\* a time, every user has at most one non-deleted record per trimmed,
\* case-insensitive name.
C1_AtMostOneActivePerName ==
  \A i, j \in 1..Len(records) :
    (i # j /\ records[i].user = records[j].user
           /\ SameName(records[i].name, records[j].name))
      => (records[i].is_deleted \/ records[j].is_deleted)
\* A second add of a name, in another letter case, was refused and the name
\* is still held once.
C1_Witness ==
  /\ last.op = "add_birthday" /\ last.ret.message = "already exists"
  /\ last.name = N_AL
  /\ Cardinality(ActiveIds(records, last.user_id, N_al)) = 1

\* C2: when add_birthday and restore_deleted_birthday calls for the same user
\* and the same case-insensitive name interleave at their awaits, every
\* successful mutation still leaves at most one active record of that name.
C2_ConcurrentAtMostOneActive ==
  \A p \in Handlers :
    (calls[p].pc = "done" /\ calls[p].ret.success
       /\ calls[p].op \in {"add_birthday", "restore_deleted_birthday"})
      => Cardinality(ActiveIds(records, calls[p].user_id, calls[p].name)) <= 1

\* C3: add_birthday (with arguments that pass validation) for a user who has
\* an active record of the same name returns success=False, "already exists",
\* creates no record, changes no record, and get_user_birthdays lists the name
\* exactly once.
C3_DuplicateAddRefused ==
  \A c \in ValidAddInputs :
    ActiveIds(records, c[1], c[2]) # {} =>
      LET out == AddOf(c)
          listed == get_user_birthdays(out.users, out.records, c[1], FALSE)
      IN  /\ out.ret = Ret(FALSE, "already exists")
          /\ out.records = records
          /\ Cardinality({k \in 1..Len(listed) : SameName(listed[k].name, c[2])}) = 1
C3_Witness ==
  /\ last.op = "add_birthday" /\ last.ret = Ret(FALSE, "already exists")
  /\ ActiveIds(records, last.user_id, last.name) # {}

\* C4: add_birthday, then delete_birthday, then restore_deleted_birthday of
\* the same user and name leaves one record of that name, carrying the
\* birthdate, category, image_url, notes and name the add stored, with
\* is_deleted = False and deleted_at = None.
C4_AddDeleteRestoreRoundTrip ==
  \A c \in ValidAddInputs, t \in Later :
    LET o1 == AddOf(c)
        o2 == delete_birthday(o1.users, o1.records, t, c[1], c[2])
        o3 == restore_deleted_birthday(o2.users, o2.records, c[1], c[2])
        ids == {i \in 1..Len(o3.records) :
                  o3.records[i].user = c[1] /\ SameName(o3.records[i].name, c[2])}
    IN  (o1.ret.success /\ Len(o1.records) <= MaxRecords) =>
          /\ o2.ret.success /\ o3.ret.success
          /\ Cardinality(ids) = 1
          /\ \A i \in ids :
               /\ o3.records[i].birthdate = ExpectedDate(c[3].birthdate_str)
               /\ o3.records[i].category = ExpectedCategory(c[3].category)
               /\ o3.records[i].image_url = c[3].image_url
               /\ o3.records[i].notes = c[3].notes
               /\ o3.records[i].name = o1.records[i].name
               /\ SameName(o3.records[i].name, c[2])
               /\ o3.records[i].is_deleted = FALSE
               /\ o3.records[i].deleted_at = None
               /\ o2.records[i].is_deleted = TRUE
C4_Witness ==
  /\ last.op = "restore_deleted_birthday" /\ last.ret.success
  /\ \E i \in ActiveIds(records, last.user_id, last.name) :
       records[i].notes = Some("likes tea") /\ records[i].category = Str_work

\* C5: of two delete_birthday calls in a row for the same user and name, the
\* first succeeds and soft-deletes the record; the second returns
\* success=False, "not found", and leaves is_deleted and deleted_at as the
\* first set them.
C5_DeleteTwice ==
  \A c \in CallInputs, t \in Later :
    \A i \in ActiveIds(records, c[1], c[2]) :
      LET o1 == delete_birthday(users, records, now, c[1], c[2])
          o2 == delete_birthday(o1.users, o1.records, t, c[1], c[2])
      IN  /\ o1.ret = Ret(TRUE, "deleted")
          /\ o1.records[i].is_deleted = TRUE
          /\ o1.records[i].deleted_at = Some(now)
          /\ o2.ret = Ret(FALSE, "not found")
          /\ o2.records = o1.records
C5_Witness ==
  /\ last.op = "delete_birthday" /\ last.ret = Ret(FALSE, "not found")
  /\ \E i \in DeletedIds(records, last.user_id, last.name) :
       records[i].deleted_at = Some(now)

\* C6: restore_deleted_birthday for a name whose record is active returns
\* success=False, "No deleted birthday found", and changes no record.
C6_RestoreActiveRefused ==
  \A c \in CallInputs :
    ActiveIds(records, c[1], c[2]) # {} =>
      LET out == restore_deleted_birthday(users, records, c[1], c[2])
      IN  /\ out.ret = Ret(FALSE, "No deleted birthday found")
          /\ out.records = records
          /\ out.users = users
C6_Witness ==
  /\ last.op = "restore_deleted_birthday"
  /\ last.ret = Ret(FALSE, "No deleted birthday found")
  /\ ActiveIds(records, last.user_id, last.name) # {}

\* C7: add_birthday for a name whose record of that user is soft-deleted
\* succeeds without creating a record: the user's record count is unchanged,
\* the record becomes active with deleted_at = None, and its birthdate,
\* category, image_url and notes are those of this call.
C7_AddResurrects ==
  \A c \in ValidAddInputs :
    \A i \in DeletedIds(records, c[1], c[2]) :
      LET out == AddOf(c) IN
        /\ out.ret.success
        /\ Len(out.records) = Len(records)
        /\ OwnedIds(out.records, c[1]) = OwnedIds(records, c[1])
        /\ out.records[i].is_deleted = FALSE
        /\ out.records[i].deleted_at = None
        /\ out.records[i].birthdate = ExpectedDate(c[3].birthdate_str)
        /\ out.records[i].category = ExpectedCategory(c[3].category)
        /\ out.records[i].image_url = c[3].image_url
        /\ out.records[i].notes = c[3].notes
C7_Witness ==
  /\ last.op = "add_birthday" /\ last.ret = Ret(TRUE, "Birthday restored")
  /\ ActiveIds(records, last.user_id, last.name) # {}

\* C8: get_user_birthdays (include_deleted left False), get_birthdays_by_category,
\* get_birthdays_by_month and get_user_stats never return or count a record
\* whose is_deleted is True, and such a record can be restored by
\* restore_deleted_birthday with its name in any letter case.
LetterCases(name) ==
  {name, lower(name), title(name), [i \in 1..Len(name) |-> upper_char(name[i])]}
C8_DeletedHiddenButRestorable ==
  /\ \A u \in CallerIds :
       LET active == {i \in OwnedIds(records, u) : ~records[i].is_deleted}
           Rows(list) == {list[k] : k \in 1..Len(list)}
           stats == get_user_stats(users, records, now.date, u)
       IN  /\ Rows(get_user_birthdays(users, records, u, FALSE)) \subseteq {records[i] : i \in active}
           /\ \A cat \in BIRTHDAY_CATEGORIES \cup {Str_Work, Str_FRIEND} :
                Rows(get_birthdays_by_category(users, records, u, cat))
                  \subseteq {records[i] : i \in active}
           /\ \A m \in 1..12 :
                Rows(get_birthdays_by_month(users, records, u, m))
                  \subseteq {records[i] : i \in active}
           /\ ~stats.empty =>
                /\ stats.total_birthdays = Cardinality(active)
                /\ \A cat \in DOMAIN stats.category_breakdown :
                     stats.category_breakdown[cat]
                       = Cardinality({i \in active : records[i].category = cat})
                /\ \A m \in DOMAIN stats.monthly_distribution :
                     stats.monthly_distribution[m]
                       = Cardinality({i \in active : records[i].birthdate.m = m})
  /\ \A i \in 1..Len(records) :
       records[i].is_deleted =>
         \A n \in LetterCases(records[i].name) :
           LET out == restore_deleted_birthday(users, records, records[i].user, n)
           IN  /\ out.ret.success
               /\ out.records[i] = [records[i] EXCEPT !.is_deleted = FALSE,
                                                      !.deleted_at = None]
\* A user holds a deleted and an active record born in the same month.
C8_Witness ==
  \E i, j \in 1..Len(records) :
    /\ records[i].user = records[j].user
    /\ records[i].is_deleted /\ ~records[j].is_deleted
    /\ records[i].birthdate.m = records[j].birthdate.m
    /\ records[i].category = records[j].category


\* ---------------------------------------------------------- reminder claims
\* The ids of the records bundled in a reminder
Bundled(e) == {e.birthdays[k].id : k \in 1..Len(e.birthdays)}
\* The reminders of a finished run addressed to a user
EventsFor(user_id) == {k \in 1..Len(job.events) : job.events[k].user_id = user_id}
\* The non-deleted records of a user that fall on the given month and day
ActiveOn(rs, user_id, day) ==
  {i \in 1..Len(rs) : /\ rs[i].user = user_id
                      /\ ~rs[i].is_deleted
                      /\ rs[i].birthdate.m = day.m
                      /\ rs[i].birthdate.d = day.d}
\* The calendar date at the user's place at the instant t (UTC for a zone
\* identifier that is not known)
LocalDate(us, user_id, t) == get_user_time(us[user_id].timezone, t).date

\* C9: a run of either reminder check sends nothing to a soft-deleted user
\* and bundles no soft-deleted record, also when the deleted record's birthday
\* is the day of the run.
C9_NoReminderForDeleted ==
  job.kind \in {"today", "upcoming"} =>
    \A k \in 1..Len(job.events) :
      /\ ~users[job.events[k].user_id].is_deleted
      /\ \A i \in Bundled(job.events[k]) : ~records[i].is_deleted
\* A same-day run that reminded a user of one record while another record of
\* that user, deleted, has its birthday on that very day
C9_Witness ==
  /\ job.kind = "today"
  /\ \E k \in 1..Len(job.events) :
       LET e == job.events[k] IN
         \E i \in OwnedIds(records, e.user_id) :
           /\ records[i].is_deleted
           /\ records[i].birthdate.m = LocalDate(users, e.user_id, job.at).m
           /\ records[i].birthdate.d = LocalDate(users, e.user_id, job.at).d
           /\ i \notin Bundled(e)
           /\ Bundled(e) # {}

\* C10: a same-day run makes exactly one reminder for an active user when at
\* least one of the user's active records has the month and day of the date
\* at the user's place, that reminder bundles exactly those records, and the
\* run makes no reminder for the user otherwise.
C10_TodayExactlyOnceWithMatches ==
  job.kind = "today" =>
    \A u \in DOMAIN users :
      ~users[u].is_deleted =>
        LET expected == ActiveOn(records, u, LocalDate(users, u, job.at)) IN
          IF expected # {}
            THEN /\ Cardinality(EventsFor(u)) = 1
                 /\ \A k \in EventsFor(u) :
                      /\ Bundled(job.events[k]) = expected
                      /\ Len(job.events[k].birthdays) = Cardinality(expected)
            ELSE EventsFor(u) = {}
\* A same-day run at an instant when the date at one active user's place is a
\* birthday and the date at the other's is not: one bundle of two records
\* against none
C10_Witness ==
  /\ job.kind = "today"
  /\ \E u, v \in DOMAIN users :
       /\ ~users[u].is_deleted /\ ~users[v].is_deleted
       /\ LocalDate(users, u, job.at) # LocalDate(users, v, job.at)
       /\ Cardinality(ActiveOn(records, u, LocalDate(users, u, job.at))) = 2
       /\ OwnedIds(records, v) # {}
       /\ EventsFor(v) = {}
       /\ \E k \in EventsFor(u) : Len(job.events[k].birthdays) = 2

\* ------------------------------------------------- upcoming-window claims
\* The date k days after a date
RECURSIVE DaysAfter(_, _)
DaysAfter(day, k) == IF k = 0 THEN day ELSE DaysAfter(NextDay(day), k - 1)
\* The (record id, k) pairs of a user's non-deleted records whose month and
\* day are those of the date k days after the date at the user's place, for
\* k among the given offsets
WindowPairs(rs, us, user_id, t, offsets) ==
  {p \in (1..Len(rs)) \X offsets :
     p[1] \in ActiveOn(rs, user_id, DaysAfter(LocalDate(us, user_id, t), p[2]))}
\* The (record id, days ahead) pairs a reminder lists
Listed(e) == {<<e.birthdays[k].id, e.days[k]>> : k \in 1..Len(e.birthdays)}

\* C11: a run of the upcoming check makes exactly one reminder for each active
\* user with a match, listing exactly the active records whose month and day
\* are those of the user's local date plus k days for k in 1..3, each once
\* with its k; records on the local date itself or 4 days ahead are left out.
C11_UpcomingWindowExact ==
  job.kind = "upcoming" =>
    \A u \in DOMAIN users :
      ~users[u].is_deleted =>
        LET expected == WindowPairs(records, users, u, job.at, 1..3) IN
          IF expected # {}
            THEN /\ Cardinality(EventsFor(u)) = 1
                 /\ \A k \in EventsFor(u) :
                      /\ Listed(job.events[k]) = expected
                      /\ Len(job.events[k].birthdays) = Cardinality(expected)
            ELSE EventsFor(u) = {}
\* An upcoming run that listed two records of a user at different offsets, and
\* one that listed a record while leaving out the user's record of the local
\* date itself or of 4 days ahead
C11_Witness ==
  /\ job.kind = "upcoming"
  /\ \E k \in 1..Len(job.events) :
       LET e == job.events[k] IN
         \/ /\ Len(e.birthdays) = 2
            /\ e.days[1] # e.days[2]
            /\ WindowPairs(records, users, e.user_id, job.at, {0, 4}) = {}
         \/ /\ Len(e.birthdays) = 1
            /\ WindowPairs(records, users, e.user_id, job.at, {0, 4}) # {}

\* ------------------------------------------------------------- age claims
\* Completed years of life on a date: the difference of the years, less one
\* when the birthday's month and day come after the date's
SpecAge(birthdate, today) ==
  today.y - birthdate.y
    - (IF 100 * birthdate.m + birthdate.d > 100 * today.m + today.d THEN 1 ELSE 0)

\* C12: every record of a same-day reminder carries age(record, localToday),
\* localToday being the date at the owning user's place.
C12_TodayAgeOfLocalDate ==
  job.kind = "today" =>
    \A k \in 1..Len(job.events) :
      LET e == job.events[k] IN
        \A j \in 1..Len(e.birthdays) :
          e.ages[j] = SpecAge(e.birthdays[j].birthdate, LocalDate(users, e.user_id, job.at))

\* C13: every record of an upcoming reminder carries turningAge, that is
\* age(record, today) + 1, the age reached on the coming birthday, whether or
\* not the 1 to 3 days to the birthday cross the end of the year.
C13_UpcomingTurningAge ==
  job.kind = "upcoming" =>
    \A k \in 1..Len(job.events) :
      LET e == job.events[k] IN
        \A j \in 1..Len(e.birthdays) :
          e.ages[j] =
            SpecAge(e.birthdays[j].birthdate, LocalDate(users, e.user_id, job.at)) + 1

\* ------------------------------------------------------ delivery failures
\* The users that are not soft-deleted
ActiveUsers == {u \in DOMAIN users : ~users[u].is_deleted}

\* C14: in a run of the same-day check, of the upcoming check and of
\* /broadcast, a delivery that fails for one user does not stop the batch:
\* every active user is still processed exactly once, and the success and
\* failure counts /broadcast reports add up to the number of active users.
C14_FailureDoesNotStopBatch ==
  /\ job.kind \in {"today", "upcoming"} =>
       \A u \in ActiveUsers :
         /\ Cardinality({k \in 1..Len(job.seen) : job.seen[k] = u}) = 1
         /\ LET matches == IF job.kind = "today"
                             THEN ActiveOn(records, u, LocalDate(users, u, job.at))
                             ELSE WindowPairs(records, users, u, job.at, 1..3)
            IN  matches # {} => Cardinality(EventsFor(u)) = 1
  /\ (job.kind = "broadcast" /\ job.from_user = SuperadminUser /\ job.has_text) =>
       /\ \A u \in ActiveUsers :
            Cardinality({k \in 1..Len(job.sent) : job.sent[k].user_id = u}) = 1
       /\ job.success_count + job.failed_count = Cardinality(ActiveUsers)

\* ------------------------------------------------------ unknown timezones
\* Zone identifiers a users row may hold
TzIdentifiers == KnownTimezones \cup {"Mars/Olympus", "", "GMT+25"}
\* The (record id, k) pairs of a user's non-deleted records whose month and
\* day are those of the date k days after the given date
PairsFrom(rs, user_id, day, offsets) ==
  {p \in (1..Len(rs)) \X offsets : p[1] \in ActiveOn(rs, user_id, DaysAfter(day, p[2]))}

\* C15: get_user_time returns a time for every zone identifier, the UTC time
\* for one that is not known; a user whose stored timezone is not known is
\* matched by both checks against the UTC date, and the users after that one
\* are processed.
C15_UnknownTimezoneFallsBackToUtc ==
  /\ \A tz \in TzIdentifiers :
       /\ get_user_time(tz, now).hour \in 0..23
       /\ tz \notin KnownTimezones => get_user_time(tz, now) = Instant(now.date, now.hour)
  /\ job.kind \in {"today", "upcoming"} =>
       \A u \in ActiveUsers :
         users[u].timezone \notin KnownTimezones =>
           /\ LET expected == IF job.kind = "today"
                                THEN {<<i, 0>> : i \in ActiveOn(records, u, job.at.date)}
                                ELSE PairsFrom(records, u, job.at.date, 1..3)
              IN  IF expected # {}
                    THEN /\ Cardinality(EventsFor(u)) = 1
                         /\ \A k \in EventsFor(u) : Listed(job.events[k]) = expected
                    ELSE EventsFor(u) = {}
           /\ \A v \in ActiveUsers :
                /\ \E k \in 1..Len(job.seen) : job.seen[k] = v
                /\ LET matches == IF job.kind = "today"
                                    THEN ActiveOn(records, v, LocalDate(users, v, job.at))
                                    ELSE WindowPairs(records, users, v, job.at, 1..3)
                   IN  matches # {} => EventsFor(v) # {}
\* A same-day run that reminded a user with an unknown stored timezone of a
\* record of the UTC date, and then reminded the next user
C15_Witness ==
  /\ job.kind = "today"
  /\ Len(job.events) = 2
  /\ users[job.events[1].user_id].timezone \notin KnownTimezones
  /\ job.events[1].birthdays[1].birthdate.d = job.at.date.d
  /\ LocalDate(users, job.events[2].user_id, job.at) # job.at.date

\* ------------------------------------------------------ statistics claims
\* The ages a finished statistics or analytics call computed
ComputedAges ==
  IF job.kind = "stats" /\ ~job.result.raised /\ job.result.empty THEN << >>
  ELSE IF job.kind = "stats" /\ ~job.result.raised /\ job.result.total_birthdays = 0 THEN << >>
  ELSE IF job.kind = "analytics" /\ job.result.error THEN << >>
  ELSE job.result.ages
\* The non-deleted records a statistics or analytics call goes through, in id
\* order
CountedIds ==
  IF job.kind = "stats"
    THEN {i \in 1..Len(records) : records[i].user = job.user_id /\ ~records[i].is_deleted}
    ELSE {i \in 1..Len(records) : ~records[i].is_deleted}
Counted == LET ids == SeqOfSet(CountedIds) IN [k \in 1..Len(ids) |-> records[ids[k]]]

\* C16: for every record add_birthday or update_birthday accepted and every
\* reference date, the age get_user_stats and get_analytics_report compute is
\* not negative.
C16_AgesNeverNegative ==
  job.kind \in {"stats", "analytics"} =>
    \A k \in 1..Len(ComputedAges) : ComputedAges[k] >= 0

\* C17: the age get_user_stats and get_analytics_report compute is the
\* difference of the years, less one exactly when the birthday's month and day
\* come after the reference date's; so the age on the birthday in a year is one
\* more than on the day before, also for a birthday on January 1.
C17_AgeFormulaAndRollover ==
  /\ job.kind \in {"stats", "analytics"} =>
       /\ Len(ComputedAges) = Len(Counted)
       /\ \A k \in 1..Len(Counted) :
            ComputedAges[k] = SpecAge(Counted[k].birthdate, job.at.date)
  /\ \A i \in 1..Len(records), y \in {now.date.y, now.date.y + 1} :
       LET b == records[i].birthdate IN
         b.d <= DaysInMonth(y, b.m) =>
           /\ stats_age(b, Date(y, b.m, b.d)) = stats_age(b, PrevDay(Date(y, b.m, b.d))) + 1
           /\ analytics_age(b, Date(y, b.m, b.d))
                = analytics_age(b, PrevDay(Date(y, b.m, b.d))) + 1
\* A statistics call over a record born on January 1 and a record whose
\* birthday is still to come in the year of the reference date
C17_Witness ==
  /\ job.kind = "stats"
  /\ \E j, k \in 1..Len(Counted) :
       /\ Counted[j].birthdate.m = 1 /\ Counted[j].birthdate.d = 1
       /\ Counted[k].birthdate.m > job.at.date.m
       /\ ComputedAges[k] = job.at.date.y - Counted[k].birthdate.y - 1
       /\ ComputedAges[j] = job.at.date.y - Counted[j].birthdate.y

\* C18: for every active record, those born on February 29 included, and
\* every reference date, the days until the next occurrence get_user_stats
\* computes are a number in 0..366, which is 0 exactly when the record's month
\* and day are the reference date's; a 12-31 birthday seen from 2024-09-27
\* gives 95.
C18_DaysUntilInRange ==
  job.kind = "stats" =>
    /\ ~job.result.raised
    /\ \A k \in 1..Len(Counted) :
         LET b == Counted[k].birthdate
             days == days_until(b, job.at.date)
         IN  /\ days # None
             /\ days[1] \in 0..366
             /\ days[1] = 0 <=> (b.m = job.at.date.m /\ b.d = job.at.date.d)
             /\ (job.at.date = Date(2024, 9, 27) /\ b.m = 12 /\ b.d = 31) => days[1] = 95

\* The days from a date to the next date of the given month and day
NextOccurrence(b, today) ==
  LET years == {y \in today.y..(today.y + 8) :
                  /\ b.d <= DaysInMonth(y, b.m)
                  /\ ~DateLess(Date(y, b.m, b.d), today)}
      y == CHOOSE z \in years : \A w \in years : z <= w
  IN  toordinal(Date(y, b.m, b.d)) - toordinal(today)

\* C19: get_user_stats reports as next_birthday the active record with the
\* fewest days until its next occurrence, the first in input order among
\* several with the fewest, and None when there is no active record.
C19_NextBirthdayIsFirstMinimum ==
  (job.kind = "stats" /\ job.user_id \in DOMAIN users) =>
    /\ ~job.result.raised
    /\ IF Counted = << >> THEN job.result.next_birthday = None
       ELSE \E k \in 1..Len(Counted) :
              /\ \A j \in 1..Len(Counted) :
                   NextOccurrence(Counted[k].birthdate, job.at.date)
                     <= NextOccurrence(Counted[j].birthdate, job.at.date)
              /\ \A j \in 1..(k - 1) :
                   NextOccurrence(Counted[k].birthdate, job.at.date)
                     < NextOccurrence(Counted[j].birthdate, job.at.date)
              /\ job.result.next_birthday =
                   Some([name |-> Counted[k].name, date |-> Counted[k].birthdate,
                         days_until |-> NextOccurrence(Counted[k].birthdate, job.at.date),
                         category |-> Counted[k].category])

\* C20: the median age of get_analytics_report is, over an even number of
\* active records, the lower of the two middle elements of the ages in
\* ascending order, over an odd number the middle element, over none 0.
C20_MedianLowerMiddle ==
  (job.kind = "analytics" /\ ~job.result.error) =>
    LET ages == sorted([k \in 1..Len(Counted) |-> SpecAge(Counted[k].birthdate, job.at.date)])
        n == Len(ages)
    IN  job.result.age_statistics.median =
          IF n = 0 THEN 0
          ELSE IF n % 2 = 0 THEN ages[n \div 2]
          ELSE ages[(n + 1) \div 2]

\* The active records of a user born in a month, and those of all users
BornIn(user_ids, m) ==
  {i \in 1..Len(records) :
     /\ records[i].user \in user_ids
     /\ ~records[i].is_deleted
     /\ records[i].birthdate.m = m}

\* C21: the monthly distribution of get_user_stats and of
\* get_analytics_report has all twelve months as keys, each with the number
\* of active records born in that month; over zero records it has twelve
\* keys with count 0 and no error is returned.
C21_MonthlyDistributionTwelveMonths ==
  /\ (job.kind = "stats" /\ job.user_id \in DOMAIN users /\ ~job.result.raised) =>
       /\ DOMAIN job.result.monthly_distribution = 1..12
       /\ \A m \in 1..12 :
            job.result.monthly_distribution[m] = Cardinality(BornIn({job.user_id}, m))
  /\ job.kind = "analytics" =>
       /\ ~job.result.error
       /\ DOMAIN job.result.monthly_distribution = 1..12
       /\ \A m \in 1..12 :
            job.result.monthly_distribution[m] = Cardinality(BornIn(DOMAIN users, m))

\* The six category percentages of a report, in tenths, added up
RECURSIVE SumOver(_, _)
SumOver(f, keys) ==
  IF keys = {} THEN 0
  ELSE LET k == CHOOSE x \in keys : TRUE IN f[k] + SumOver(f, keys \ {k})
PercentageSum(report) ==
  SumOver([c \in BIRTHDAY_CATEGORIES |-> report.category_distribution[c].percentage],
          BIRTHDAY_CATEGORIES)

\* C22: in every report of get_analytics_report the six category percentages
\* (each rounded to one decimal) sum to at most 100, and deletion_rate, every
\* category percentage, image_usage_rate and notes_usage_rate are exactly 0
\* whenever their denominator is 0.
C22_PercentagesBounded ==
  (job.kind = "analytics" /\ ~job.result.error) =>
    LET report == job.result IN
    /\ PercentageSum(report) <= 1000
    /\ report.overview.total_birthdays = 0 => report.overview.deletion_rate = 0
    /\ report.overview.active_birthdays = 0 =>
         /\ \A c \in BIRTHDAY_CATEGORIES : report.category_distribution[c].percentage = 0
         /\ report.engagement.image_usage_rate = 0
         /\ report.engagement.notes_usage_rate = 0

\* C23: every report of get_analytics_report is computed from one snapshot
\* of the records, also when add_birthday or delete_birthday calls land
\* between its reads: active + deleted = total with deleted >= 0, and the
\* category counts, the monthly counts and the per-user counts each sum to
\* the active count.
C23_ReportFromOneSnapshot ==
  (job.kind = "analytics" /\ ~job.result.error) =>
    LET report == job.result
        active == report.overview.active_birthdays
    IN  /\ active + report.overview.deleted_birthdays = report.overview.total_birthdays
        /\ report.overview.deleted_birthdays >= 0
        /\ SumOver([c \in BIRTHDAY_CATEGORIES |-> report.category_distribution[c].count],
                   BIRTHDAY_CATEGORIES) = active
        /\ SumOver(report.monthly_distribution, 1..12) = active
        /\ report.user_activity.average_birthdays_per_user =
             IF report.user_activity.total_active_users = 0 THEN 0
             ELSE RoundTenths(active, report.user_activity.total_active_users)

\* C24: after any sequence of add_birthday (creating or resurrecting) and
\* update_birthday calls with arbitrary category arguments, every stored
\* record's category is one of the six lowercase keys love, family, relative,
\* work, friend, other.
C24_CategoryAlwaysAKey ==
  \A i \in 1..Len(records) :
    records[i].category \in
      {Str_love, Str_family, Str_relative, Str_work, Str_friend, Str_other}
\* An update went through on a table that holds a record added as "Work"
C24_Witness ==
  /\ last.op = "update_birthday"
  /\ last.ret.success
  /\ \E i \in 1..Len(records) : records[i].category = Str_work
  /\ \E i \in 1..Len(records) : records[i].category = Str_family

\* A failed call: a message, and the tables as they were
FailsCleanly(out) ==
  ~out.ret.success =>
    /\ out.ret.message # ""
    /\ out.users = users
    /\ out.records = records

\* C25: every call of add_birthday, update_birthday, delete_birthday or
\* restore_deleted_birthday that returns success=False returns a message and
\* leaves the persisted users and records unchanged: no user is created, and
\* an update_birthday that fails on a later field does not persist an earlier
\* valid field of the same call.
C25_FailureChangesNothing ==
  /\ \A c \in AddInputs : FailsCleanly(AddOf(c))
  /\ \A c \in CallInputs :
       /\ FailsCleanly(delete_birthday(users, records, now, c[1], c[2]))
       /\ FailsCleanly(restore_deleted_birthday(users, records, c[1], c[2]))
  /\ \A c \in UpdateInputs :
       FailsCleanly(update_birthday(users, records, now, c[1], c[2], c[3].new_date_str,
                                    c[3].new_category, c[3].new_image_url,
                                    c[3].new_notes))
\* An update with a valid new date and an unknown category has failed on a
\* stored record, after an add for a user without a row has failed
C25_Witness ==
  /\ last.op = "update_birthday"
  /\ ~last.ret.success
  /\ last.ret.message = "Invalid category"
  /\ \E i \in ActiveIds(records, last.user_id, last.name) :
       records[i].birthdate # Date(1985, 12, 31)
  /\ 2 \notin DOMAIN users
  /\ \E c \in AddInputs : c[1] = 2 /\ ~AddOf(c).ret.success

\* C26: on every path of the interactive /add flow to
\* finalize_birthday_creation (notes typed, or 'Skip Notes' pressed after a
\* typed or skipped photo), the record is created for the user who sent /add
\* and the name and date, never for another account such as the bot that
\* authored the message carrying the buttons.
C26_RecordForTheSender ==
  /\ job.kind = "add_done" =>
       /\ last.user_id = job.sender
       /\ last.ret.success =>
            \E i \in ActiveIds(records, job.sender, job.data["name"]) :
              Some(records[i].birthdate) = parse_date(job.data["date_str"], now.date.y)
  /\ \A i \in 1..Len(records) : records[i].user # BotAccount

\* C27: in every reachable store state and for every record, is_deleted is
\* True if and only if deleted_at is set, after any sequence of add (create
\* or resurrect), update, delete and restore calls.
C27_DeletedIffDeletedAt ==
  \A i \in 1..Len(records) : records[i].is_deleted <=> records[i].deleted_at # None
\* A record was restored while another one stays deleted
C27_Witness ==
  /\ last.op \in {"restore_deleted_birthday", "add_birthday"}
  /\ last.ret.success
  /\ \E i \in ActiveIds(records, last.user_id, last.name) : records[i].deleted_at = None
  /\ \E i \in 1..Len(records) : records[i].is_deleted /\ records[i].deleted_at = Some(now)
  /\ last.ret.message \in {"restored successfully", "Birthday restored"}

\* What a call for (user_id, name) may do to the records: nothing is
\* removed, no existing name or owner changes, and all that changes or is
\* added is one record of that user with that name
FrameKept(out, user_id, name) ==
  LET touched == {i \in 1..Len(out.records) :
                    i > Len(records) \/ out.records[i] # records[i]}
  IN  /\ Len(out.records) >= Len(records)
      /\ \A i \in 1..Len(records) :
           /\ out.records[i].id = records[i].id
           /\ out.records[i].name = records[i].name
           /\ out.records[i].user = records[i].user
      /\ Cardinality(touched) <= 1
      /\ \A i \in touched :
           /\ out.records[i].user = user_id
           /\ SameName(out.records[i].name, name)

\* C28: a call of add_birthday, update_birthday, delete_birthday or
\* restore_deleted_birthday for (user U, name N) changes at most the one
\* record of U whose name equals N case-insensitively: records of other
\* users and U's records with other names are unchanged, no record is ever
\* removed, and the name and owner of an existing record never change (a
\* resurrecting add keeps the stored name).
C28_OnlyTheNamedRecordChanges ==
  /\ \A c \in AddInputs : FrameKept(AddOf(c), c[1], c[2])
  /\ \A c \in CallInputs :
       /\ FrameKept(delete_birthday(users, records, now, c[1], c[2]), c[1], c[2])
       /\ FrameKept(restore_deleted_birthday(users, records, c[1], c[2]), c[1], c[2])
  /\ \A c \in UpdateInputs :
       FrameKept(update_birthday(users, records, now, c[1], c[2], c[3].new_date_str,
                                 c[3].new_category, c[3].new_image_url, c[3].new_notes),
                 c[1], c[2])
\* A record was resurrected by an add under another spelling of its name,
\* next to a record of the same user with another name and a record of
\* another user with the same name
C28_Witness ==
  /\ last.op = "add_birthday"
  /\ last.ret.message = "Birthday restored"
  /\ \E i \in ActiveIds(records, last.user_id, last.name) : records[i].name # last.name
  /\ \E i \in OwnedIds(records, last.user_id) : ~SameName(records[i].name, last.name)
  /\ \E i \in 1..Len(records) :
       records[i].user # last.user_id /\ SameName(records[i].name, last.name)

\* C29: an admin command is executed if and only if the sender's numeric
\* user id is the configured SUPERADMIN_ID; every other sender gets 'Access
\* denied' and the configured superadmin is granted.
C29_AdminOnlyForSuperadmin ==
  job.kind = "broadcast" =>
    /\ job.from_user # SuperadminUser => job.reply = "denied"
    /\ job.from_user = SuperadminUser => job.reply \in {"usage", "complete"}

\* The callbacks of the admin keyboards and of the user flow
AdminData ==
  {Data_admin_birthdays_active, Data_admin_birthdays_all, Data_export_active,
   Data_export_all}
UserFlowData ==
  PressedCategories \cup
    {Data_add_photo, Data_skip_photo, Data_add_notes, Data_skip_notes,
     Data_view_cat_work, Data_update_date_1}

\* C30: with the handlers registered in the order main() registers them,
\* every callback whose data is admin_birthdays_active, admin_birthdays_all,
\* export_active or export_all is handled by handle_admin_callbacks, and
\* every callback of the user flow is handled by handle_category_callback.
C30_CallbacksReachTheirHandler ==
  /\ \A data \in UserFlowData : trigger(data) = "handle_category_callback"
  /\ job.kind = "callback" =>
       /\ job.data \in AdminData =>
            /\ job.handler = "handle_admin_callbacks"
            /\ job.passed_to \in {"show_admin_birthdays", "handle_export_callback"}
       /\ job.data \in UserFlowData =>
            /\ job.handler = "handle_category_callback"
            /\ job.passed_to \in {"show_category_birthdays", "handle_update_callback"}

====
